---- MODULE Spec2Model ----
(***************************************************************************)
(* Verification model of dingo-store: the B-tree raw engine                *)
(* (src/engine/bdb_raw_engine.cc), the document service dispatch           *)
(* (src/server/document_service.cc, src/server/service_helper.h) and the   *)
(* coordinator service (src/server/coordinator_service.cc).                *)
(*                                                                         *)
(* The engine, the service and the coordinator are three components with   *)
(* their own variables; each specification moves one component and leaves  *)
(* the others unchanged.                                                   *)
(***************************************************************************)
EXTENDS Integers, Sequences, FiniteSets, TLC

(***************************************************************************)
(* Bounds of the model.                                                    *)
(***************************************************************************)
\* user keys are the one-byte strings <<1>> .. <<MaxKey>>
MaxKey == 2

\* a request is wrong in at most MaxDefects ways at once
MaxDefects == 2

\* a worker set holds at most MaxPending tasks
MaxPending == 2

\* timestamps are 0 .. MaxTs
MaxTs == 2

\* the store map epoch is followed up to MaxEpoch
MaxEpoch == 3

\* the MetaStore hands out the main revisions 1..MaxRevision
MaxRevision == 3

\* the MetaIncrements that wait in the log at one time
MaxLog == 1

\* the mutations of one TxnPrewrite request
MaxMutations == 2

\* the transactions open at once
MaxOpen == 2

(***************************************************************************)
(* Program constants.                                                      *)
(***************************************************************************)
\* DEFINE_int32(bdb_max_retries, 30, "bdb max retry on a deadlock")
bdb_max_retries == 30

\* DEFINE_uint32(max_kv_key_size, 4096, "max kv put count")
max_kv_key_size == 4096

\* DEFINE_int32(max_create_id_count, 2048, ...)
max_create_id_count == 2048

VARIABLES
  db,        \* engine: the committed content of the shared B-tree, raw key -> value
  e_pc,      \* engine: "idle" | "called" | "running" | "done"
  e_req,     \* engine: the writer call in flight
  e_pre,     \* engine: the committed content when the call was made
  e_resp,    \* engine: status and retry count of the finished call
  e_todo,    \* engine: the (cf, range) pairs the bulk range delete has still to visit
  snapshot,  \* engine: the snapshot the caller holds, or NoSnapshot
  r_resp,    \* engine: the result of the last read
  s_pc,      \* service: "idle" | "queued" | "finished"
  s_req,     \* service: the RPC in flight
  s_resp,    \* service: its response
  s_runs,    \* service: how often its ServiceClosure has run
  s_handed,  \* service: whether the request was handed to the storage
  s_read_only,  \* service: Server's cluster read-only flag
  s_busy,    \* service: the tasks of other requests pending in each worker set
  c_pc,      \* coordinator: "idle" | "queued" | "finished"
  c_req,     \* coordinator: the RPC in flight
  c_resp,    \* coordinator: its response
  c_runs,    \* coordinator: how often the RPC's done closure has run
  c_task,    \* coordinator: the RPC's task, "none" | "refused" | "executed"
  c_leader,  \* coordinator: IsLeader
  c_busy,    \* coordinator: the tasks of other requests pending in the worker set
  c_job,     \* coordinator: the job, its region cmds and the task it is at
  c_gc,      \* coordinator: the GC safe points and gc_stop
  c_storemap,  \* coordinator: the store map and its epoch
  c_store_ops, \* coordinator: store id -> the region cmds pending for the store
  c_cluster, \* coordinator: the read-only flags of the cluster
  k_last,    \* history: raw key -> the latest successful write to it
  i_open,    \* iterator: whether a caller holds one
  i_opts,    \* iterator: the column family and the IteratorOptions it was made with
  i_it,      \* iterator: the Iterator object
  i_cur,     \* iterator: where its cursor stands in the B-tree, NotFound before any get
  m_kv_index, \* metastore: kv_index_map_, key -> KvIndexInternal
  m_kv_rev,  \* metastore: kv_rev_map_, revision string -> KvRevInternal
  m_lease,   \* metastore: lease id -> whether it is granted, and its key-set
  m_watch,   \* metastore: one_time_watch_map_, the keys that are watched
  m_events,  \* metastore: key -> the events sent to its watchers, counted, and the last
  m_revision, \* metastore: the next main revision
  m_log,     \* metastore: the MetaIncrements committed and not yet applied
  m_resp,    \* metastore: the answer of the call that has not returned yet
  m_puts,    \* history: revision string -> the flags of the put accepted at it
  sm_map,    \* safe map: the FlatMap, key -> value
  sm_ret,    \* safe map: the last member function called and what it returned
  l_pc,      \* latch: worker -> "idle" | "validated" | "latched" | "processed" | "finished"
  l_req,     \* latch: worker -> the mutations of the TxnPrewrite request it runs
  l_latches, \* latch: the region's latches, slot -> the worker that owns it, 0 for none
  t_alive,   \* transactions: what was added to bdb_transaction_alive_count, summed
  t_open,    \* transactions: how many the engine has begun and not yet ended
  t_last     \* transactions: the last call and what it did to its transaction

engineVars == <<db, e_pc, e_req, e_pre, e_resp, e_todo, snapshot, r_resp>>
serviceVars == <<s_pc, s_req, s_resp, s_runs, s_handed, s_read_only, s_busy>>

coordRpcVars == <<c_pc, c_req, c_resp, c_runs, c_task>>
coordStateVars == <<c_leader, c_busy, c_job, c_gc, c_storemap, c_store_ops, c_cluster>>
coordVars == <<coordRpcVars, coordStateVars>>

historyVars == <<k_last>>
iterVars == <<i_open, i_opts, i_it, i_cur>>
metaVars ==
  <<m_kv_index, m_kv_rev, m_lease, m_watch, m_events, m_revision, m_log, m_resp, m_puts>>

safeMapVars == <<sm_map, sm_ret>>
latchVars == <<l_pc, l_req, l_latches>>
txnVars == <<t_alive, t_open, t_last>>

vars == <<engineVars, serviceVars, coordVars, historyVars, iterVars, metaVars, safeMapVars, latchVars, txnVars>>

\* what a step of one component leaves alone
notEngine == <<serviceVars, coordVars, historyVars, iterVars, metaVars, safeMapVars, latchVars, txnVars>>
notService == <<engineVars, coordVars, historyVars, iterVars, metaVars, safeMapVars, latchVars, txnVars>>
notCoord == <<engineVars, serviceVars, historyVars, iterVars, metaVars, safeMapVars, latchVars, txnVars>>
notIter == <<serviceVars, coordVars, historyVars, metaVars, safeMapVars, latchVars, txnVars>>
notMeta == <<engineVars, serviceVars, coordVars, historyVars, iterVars, safeMapVars, latchVars, txnVars>>
notSafeMap == <<engineVars, serviceVars, coordVars, historyVars, iterVars, metaVars, latchVars, txnVars>>
notLatch == <<engineVars, serviceVars, coordVars, historyVars, iterVars, metaVars, safeMapVars, txnVars>>
notTxn == <<serviceVars, coordVars, historyVars, iterVars, metaVars, safeMapVars, latchVars>>

(***************************************************************************)
(* Strings are sequences of bytes, compared as std::string compares them.  *)
(***************************************************************************)
RECURSIVE StrLess(_, _)
StrLess(a, b) ==
  IF b = <<>> THEN FALSE
  ELSE IF a = <<>> THEN TRUE
  ELSE IF Head(a) # Head(b) THEN Head(a) < Head(b)
  ELSE StrLess(Tail(a), Tail(b))

StrLeq(a, b) == a = b \/ StrLess(a, b)

(***************************************************************************)
(* BdbHelper: column families share one B-tree, keyed cf_id || user_key.   *)
(***************************************************************************)
CfNames == {"default", "meta"}

\* cf_name_to_id: {"default", '0'}, {"meta", '1'}
GetCfId(cf_name) == IF cf_name = "default" THEN 48 ELSE 49

\* an encoding that leaves the column family out of the raw key
EncodeKeyOneFamily(cf_name, key) == <<GetCfId("default")>> \o key

EncodeKey(cf_name, key) == <<GetCfId(cf_name)>> \o key

UserKeys == {<<b>> : b \in 1..MaxKey}
EmptyKey == <<>>
Values == {"v1", "v2"}
NoValue == "none"

RawKeys == {EncodeKey(cf, k) : cf \in CfNames, k \in UserKeys}

\* a BdbSnapshot: the view its DB_TXN_SNAPSHOT transaction reads; not live is nullptr
NoSnapshot == [live |-> FALSE, view |-> [rk \in RawKeys |-> NoValue]]
NoReq == [op |-> "none"]
NoResp == [status |-> "none", retry_count |-> 0, deadlocks |-> 0]
NoRead == [op |-> "none"]

(***************************************************************************)
(* One transaction attempt of a writer (the body of the retry loop):       *)
(* txn_begin, the puts and deletes, commit.  The engine answers each call  *)
(* with success, a non-zero return ("err") or a DbException ("exc"); the   *)
(* fault names the one call of the attempt that fails.  A DbDeadlock-      *)
(* Exception is drawn apart, as the number of attempts that deadlock.      *)
(* Nothing a transaction wrote is visible before its commit succeeds.      *)
(***************************************************************************)
NoFault == [at |-> -1, kind |-> "none"]

\* DbEnv((uint32_t)0) and Db(envp, 0) leave the C++ exceptions of the library
\* on: a call that fails throws, it does not return an error code
FaultKinds == {"exc"}
Faults(ncalls) == {NoFault} \cup [at : 0..(ncalls + 1), kind : FaultKinds]

PutCall(cf, key, value) == [op |-> "put", cf |-> cf, keys |-> <<key>>, value |-> value]
DelCall(cf, key) == [op |-> "del", cf |-> cf, keys |-> <<key>>, value |-> NoValue]
\* Db::del with DB_MULTIPLE: one call for the whole list
DelMultiple(cf, keys) == [op |-> "del", cf |-> cf, keys |-> keys, value |-> NoValue]
\* a column family whose list is empty
EmptyList(cf) == [op |-> "emptylist", cf |-> cf, keys |-> <<>>, value |-> NoValue]

\* Db::put / Db::del inside the transaction change the transaction's own view
TxnWrite(view, call) ==
  [rk \in DOMAIN view |->
     IF \E i \in 1..Len(call.keys) : rk = EncodeKey(call.cf, call.keys[i])
     THEN call.value ELSE view[rk]]

\* the calls i.. of one attempt; check_del is whether the code looks at what
\* Db::del returned
RECURSIVE RunCalls(_, _, _, _, _)
RunCalls(calls, i, view, fault, check_del) ==
  IF i > Len(calls) THEN [status |-> "OK", view |-> view]
  ELSE LET call == calls[i] IN
    IF call.op = "emptylist" \/ call.keys[1] = EmptyKey
    THEN [status |-> "EKEY_EMPTY", view |-> view]
    ELSE IF fault.at = i /\ fault.kind = "exc"
    THEN [status |-> "EBDB_EXCEPTION", view |-> view]
    ELSE IF fault.at = i /\ fault.kind = "err"
    THEN IF call.op = "put" \/ check_del
         THEN [status |-> "EINTERNAL", view |-> view]
         ELSE RunCalls(calls, i + 1, view, fault, check_del)
    ELSE RunCalls(calls, i + 1, TxnWrite(view, call), fault, check_del)

\* an attempt whose failure leaves behind what it had written so far
TxnAttemptNoAbort(store, calls, fault, check_del, commit_err) ==
  IF fault.at = 0 THEN [status |-> "EBDB_EXCEPTION", db |-> store]
  ELSE LET r == RunCalls(calls, 1, store, fault, check_del) IN
    IF r.status # "OK" THEN [status |-> r.status, db |-> r.view]
    ELSE IF fault.at = Len(calls) + 1 THEN [status |-> "EBDB_COMMIT", db |-> r.view]
    ELSE [status |-> "OK", db |-> r.view]

\* txn_begin .. commit; the result is the status and the committed content
TxnAttempt(store, calls, fault, check_del, commit_err) ==
  IF fault.at = 0
  THEN [status |-> IF fault.kind = "err" THEN "EINTERNAL" ELSE "EBDB_EXCEPTION",
        db |-> store]
  ELSE LET r == RunCalls(calls, 1, store, fault, check_del) IN
    IF r.status # "OK" THEN [status |-> r.status, db |-> store]
    ELSE IF fault.at = Len(calls) + 1
    THEN [status |-> IF fault.kind = "err" THEN commit_err ELSE "EBDB_COMMIT",
          db |-> store]
    ELSE [status |-> "OK", db |-> r.view]

(***************************************************************************)
(* The retry loop around an attempt: `deadlocks` attempts in a row end in  *)
(* a DbDeadlockException, then the attempt `final` is made.                *)
(***************************************************************************)
\* a retry loop that retries once more than bdb_max_retries allows
RECURSIVE WriteLoopOneMore(_, _, _, _)
WriteLoopOneMore(store, retry_count, deadlocks, final) ==
  IF deadlocks > 0
  THEN IF retry_count <= bdb_max_retries
       THEN WriteLoopOneMore(store, retry_count + 1, deadlocks - 1, final)
       ELSE [status |-> "EBDB_DEADLOCK", db |-> store, retry_count |-> retry_count]
  ELSE [status |-> final.status, db |-> final.db, retry_count |-> retry_count]

RECURSIVE WriteLoop(_, _, _, _)
WriteLoop(store, retry_count, deadlocks, final) ==
  IF deadlocks > 0
  THEN IF retry_count < bdb_max_retries
       THEN WriteLoop(store, retry_count + 1, deadlocks - 1, final)
       ELSE [status |-> "EBDB_DEADLOCK", db |-> store, retry_count |-> retry_count]
  ELSE [status |-> final.status, db |-> final.db, retry_count |-> retry_count]

\* how many attempts in a row deadlock: none, one, as many as may be retried,
\* one more than that
DeadlockRuns == {0, 1, bdb_max_retries, bdb_max_retries + 1}

(***************************************************************************)
(* The cursor of the B-tree and the Iterator on top of it.                 *)
(***************************************************************************)
NotFound == <<>>
Present(content) == {rk \in DOMAIN content : content[rk] # NoValue}
MinKey(S) == CHOOSE x \in S : \A y \in S : StrLeq(x, y)

\* Dbc::get(DB_SET_RANGE): the smallest key greater than or equal to target
CursorSetRange(content, target) ==
  LET c == {rk \in Present(content) : StrLeq(target, rk)}
  IN IF c = {} THEN NotFound ELSE MinKey(c)

\* Dbc::get(DB_NEXT)
CursorNext(content, cur) ==
  LET c == {rk \in Present(content) : StrLess(cur, rk)}
  IN IF c = {} THEN NotFound ELSE MinKey(c)

Iterator(cf_name, lower_bound, upper_bound) ==
  [cf_id |-> GetCfId(cf_name),
   raw_start_key |-> IF lower_bound # EmptyKey THEN EncodeKey(cf_name, lower_bound)
                     ELSE <<GetCfId(cf_name)>>,
   raw_end_key |-> IF upper_bound # EmptyKey THEN EncodeKey(cf_name, upper_bound)
                   ELSE <<GetCfId(cf_name) + 1>>,
   valid_ |-> FALSE,
   bdb_key_ |-> <<>>]

ValidNoUpperBound(it) ==
  /\ it.valid_
  /\ StrLeq(it.raw_start_key, it.bdb_key_)

Valid(it) ==
  /\ it.valid_
  /\ StrLeq(it.raw_start_key, it.bdb_key_)
  /\ StrLess(it.bdb_key_, it.raw_end_key)

Seek(it, content, target) ==
  LET found == CursorSetRange(content, <<it.cf_id>> \o target)
  IN [it EXCEPT !.valid_ = (found # NotFound),
                !.bdb_key_ = IF found # NotFound THEN found ELSE <<it.cf_id>> \o target]

IterNext(it, content) ==
  LET found == CursorNext(content, it.bdb_key_)
  IN [it EXCEPT !.valid_ = (found # NotFound),
                !.bdb_key_ = IF found # NotFound THEN found ELSE it.bdb_key_]

(***************************************************************************)
(* The Iterator with its cursor: every positioning function, each as the   *)
(* Iterator and the cursor position it leaves.  A get that finds nothing   *)
(* leaves the cursor where it stood; DB_NEXT and DB_PREV of a cursor that  *)
(* stands nowhere are DB_FIRST and DB_LAST.  `failed` is a get that throws. *)
(***************************************************************************)
MaxRawKey(S) == CHOOSE x \in S : \A y \in S : StrLeq(y, x)

\* Dbc::get(DB_LAST)
CursorLast(content) ==
  IF Present(content) = {} THEN NotFound ELSE MaxRawKey(Present(content))

\* Dbc::get(DB_PREV)
CursorPrev(content, cur) ==
  IF cur = NotFound THEN CursorLast(content)
  ELSE LET c == {rk \in Present(content) : StrLess(rk, cur)}
       IN IF c = {} THEN NotFound ELSE MaxRawKey(c)

\* Dbc::get(DB_NEXT) from where the cursor stands
CursorNextFrom(content, cur) ==
  IF cur = NotFound THEN CursorSetRange(content, <<>>) ELSE CursorNext(content, cur)

CompareDbt(dbt1, dbt2) ==
  IF dbt1 = dbt2 THEN 0 ELSE IF StrLess(dbt1, dbt2) THEN -1 ELSE 1

\* a get that found nothing or threw: valid_ is false, and bdb_key_ is left on
\* a buffer the call owned, which no function reads while valid_ is false
Failed(it, cur) == [it |-> [it EXCEPT !.valid_ = FALSE, !.bdb_key_ = <<>>], cur |-> cur]

\* the get found `found`: valid_ is set and the key and the cursor are there
Landed(it, cur, found) ==
  IF found # NotFound
  THEN [it |-> [it EXCEPT !.valid_ = TRUE, !.bdb_key_ = found], cur |-> found]
  ELSE Failed(it, cur)

IteratorPrev(it, cur, content, failed) ==
  IF failed THEN Failed(it, cur) ELSE Landed(it, cur, CursorPrev(content, cur))

IteratorNext(it, cur, content, failed) ==
  IF failed THEN Failed(it, cur) ELSE Landed(it, cur, CursorNextFrom(content, cur))

IteratorSeek(it, cur, content, target, failed) ==
  LET store_key == <<it.cf_id>> \o target
      keyed == [it EXCEPT !.bdb_key_ = store_key]
  IN IF failed THEN Failed(keyed, cur)
     ELSE Landed(keyed, cur, CursorSetRange(content, store_key))

SeekToFirst(it, cur, content, failed) == IteratorSeek(it, cur, content, <<>>, failed)

SeekToLast(it, cur, content, failed) ==
  LET cf_upper_bound == <<it.cf_id + 1>>
      keyed == [it EXCEPT !.valid_ = FALSE, !.bdb_key_ = cf_upper_bound]
      found == CursorSetRange(content, cf_upper_bound)
  IN IF failed THEN Failed(keyed, cur)
     ELSE IF found # NotFound
     THEN IteratorPrev([keyed EXCEPT !.bdb_key_ = found], found, content, FALSE)
     ELSE Landed(keyed, cur, CursorLast(content))

SeekForPrev(it, cur, content, target, failed) ==
  LET store_key == <<it.cf_id>> \o target
      keyed == [it EXCEPT !.valid_ = FALSE, !.bdb_key_ = store_key]
      found == CursorSetRange(content, store_key)
  IN IF failed THEN Failed(keyed, cur)
     ELSE IF found # NotFound
     THEN IF CompareDbt(store_key, found) <= 0
          THEN Landed(keyed, cur, found)
          ELSE IteratorPrev([keyed EXCEPT !.bdb_key_ = found], found, content, FALSE)
     ELSE Landed(keyed, cur, CursorLast(content))

\* Iterator::Key(): the raw key without the column family prefix
IterKey(it) == Tail(it.bdb_key_)

\* while (iter->Valid()) { keys.emplace_back(iter->Key()); iter->Next(); }
RECURSIVE CollectKeys(_, _, _)
CollectKeys(it, content, keys) ==
  IF Valid(it)
  THEN CollectKeys(IterNext(it, content), content, Append(keys, IterKey(it)))
  ELSE keys

\* what the engine does to the scan: nothing, no cursor, or a failed Seek
ScanFaults == {"none", "cursor", "seek"}

GetRangeKeys(content, cf_name, start_key, end_key, scan_fault) ==
  IF start_key = EmptyKey \/ end_key = EmptyKey
  THEN [status |-> "EKEY_EMPTY", keys |-> <<>>]
  ELSE IF StrLeq(end_key, start_key) THEN [status |-> "OK", keys |-> <<>>]
  ELSE IF scan_fault = "cursor" THEN [status |-> "EINTERNAL", keys |-> <<>>]
  ELSE IF scan_fault = "seek" THEN [status |-> "OK", keys |-> <<>>]
  ELSE [status |-> "OK",
        keys |-> CollectKeys(Seek(Iterator(cf_name, start_key, end_key), content, start_key),
                             content, <<>>)]

(***************************************************************************)
(* Writer: each function is its result, the status with the retry count    *)
(* and the committed content it leaves.                                    *)
(***************************************************************************)
Ended(status, store) == [status |-> status, db |-> store, retry_count |-> 0]

KvPut(store, cf_name, key, value, deadlocks, fault) ==
  IF key = EmptyKey THEN Ended("EKEY_EMPTY", store)
  ELSE WriteLoop(store, 0, deadlocks,
         TxnAttempt(store, <<PutCall(cf_name, key, value)>>, fault, TRUE, "EINTERNAL"))

KvBatchDelete(store, cf_name, keys, deadlocks, fault) ==
  IF keys = <<>> THEN Ended("EKEY_EMPTY", store)
  ELSE WriteLoop(store, 0, deadlocks,
         TxnAttempt(store, <<DelMultiple(cf_name, keys)>>, fault, TRUE, "EBDB_COMMIT"))

\* a delete that reports success and leaves the key where it is
KvDeleteKeepsKey(store, cf_name, key, deadlocks, fault) ==
  IF key = EmptyKey THEN Ended("EKEY_EMPTY", store)
  ELSE Ended("OK", store)

KvDelete(store, cf_name, key, deadlocks, fault) ==
  IF key = EmptyKey THEN Ended("EKEY_EMPTY", store)
  ELSE WriteLoop(store, 0, deadlocks,
         TxnAttempt(store, <<DelCall(cf_name, key)>>, fault, TRUE, "EBDB_COMMIT"))

\* the puts of every column family, then the deletes of every column family
RECURSIVE BatchCalls(_, _)
BatchCalls(with_cf, is_put) ==
  IF with_cf = <<>> THEN <<>>
  ELSE LET h == Head(with_cf) IN
    (IF h.list = <<>> THEN <<EmptyList(h.cf)>>
     ELSE [i \in 1..Len(h.list) |->
             IF is_put THEN PutCall(h.cf, h.list[i].key, h.list[i].value)
             ELSE DelCall(h.cf, h.list[i])])
    \o BatchCalls(Tail(with_cf), is_put)

KvBatchPutAndDelete(store, kv_puts_with_cf, kv_deletes_with_cf, deadlocks, fault) ==
  WriteLoop(store, 0, deadlocks,
    TxnAttempt(store,
               BatchCalls(kv_puts_with_cf, TRUE) \o BatchCalls(kv_deletes_with_cf, FALSE),
               fault, FALSE, "EBDB_COMMIT"))

\* one turn of the loop over the ranges in KvBatchDeleteRangeBulk
BulkDeleteRange(store, cf_name, range, scan_fault, deadlocks, fault) ==
  IF range.start_key = EmptyKey \/ range.end_key = EmptyKey
  THEN Ended("EILLEGAL_PARAMTETERS", store)
  ELSE IF StrLeq(range.end_key, range.start_key)
  THEN Ended("EILLEGAL_PARAMTETERS", store)
  ELSE LET got == GetRangeKeys(store, cf_name, range.start_key, range.end_key, scan_fault) IN
    IF got.status # "OK" THEN Ended(got.status, store)
    ELSE IF got.keys = <<>> THEN Ended("OK", store)
    ELSE KvBatchDelete(store, cf_name, got.keys, deadlocks, fault)

(***************************************************************************)
(* BdbRawEngine::GetSnapshot and the Reader.                               *)
(***************************************************************************)
\* a deadlock is retried, without a bound; any other exception gives nullptr
RECURSIVE GetSnapshot(_, _, _, _)
GetSnapshot(store, retry_count, deadlocks, fault) ==
  IF deadlocks > 0 THEN GetSnapshot(store, retry_count + 1, deadlocks - 1, fault)
  ELSE IF fault.kind # "none" THEN NoSnapshot
  ELSE [live |-> TRUE, view |-> store]

\* a read that never goes through the snapshot's transaction
ReadLatest(store, ss) == store

\* what Db::get and Db::cursor read: the view of the snapshot's transaction,
\* or with no transaction the committed content
ReadView(store, ss) == IF ss.live THEN ss.view ELSE store

KvGet(store, cf_name, ss, key, fault) ==
  IF key = EmptyKey THEN [status |-> "EKEY_EMPTY", value |-> NoValue]
  ELSE IF fault.kind = "exc" THEN [status |-> "EBDB_EXCEPTION", value |-> NoValue]
  ELSE IF fault.kind = "err" THEN [status |-> "EINTERNAL", value |-> NoValue]
  ELSE LET v == ReadView(store, ss)[EncodeKey(cf_name, key)] IN
    IF v # NoValue THEN [status |-> "OK", value |-> v]
    ELSE [status |-> "EKEY_NOT_FOUND", value |-> NoValue]

\* a scan that refuses a range whose ends are not in order
KvScanInOrder(store, cf_name, ss, start_key, end_key, scan_fault) ==
  IF start_key = EmptyKey \/ end_key = EmptyKey \/ StrLeq(end_key, start_key)
  THEN [status |-> "EKEY_EMPTY", iter_status |-> "OK", kvs |-> <<>>]
  ELSE [status |-> "OK", iter_status |-> "OK", kvs |-> <<>>]

\* the status is that of the call; iter_status is what the iterator holds
KvScan(store, cf_name, ss, start_key, end_key, scan_fault) ==
  IF start_key = EmptyKey \/ end_key = EmptyKey
  THEN [status |-> "EKEY_EMPTY", iter_status |-> "OK", kvs |-> <<>>]
  ELSE IF StrLeq(end_key, start_key) THEN [status |-> "OK", iter_status |-> "OK", kvs |-> <<>>]
  ELSE IF scan_fault = "cursor" THEN [status |-> "EINTERNAL", iter_status |-> "OK", kvs |-> <<>>]
  ELSE IF scan_fault = "seek"
  THEN [status |-> "OK", iter_status |-> "EBDB_EXCEPTION", kvs |-> <<>>]
  ELSE LET content == ReadView(store, ss)
           keys == CollectKeys(Seek(Iterator(cf_name, start_key, end_key), content, start_key),
                               content, <<>>)
       IN [status |-> "OK", iter_status |-> "OK",
           kvs |-> [i \in 1..Len(keys) |->
                      [key |-> keys[i], value |-> content[EncodeKey(cf_name, keys[i])]]]]

(***************************************************************************)
(* BdbRawEngine::GetApproximateSizes, built with BDB_FAST_GET_APROX_SIZE:   *)
(* the counts come from Db::stat and Db::key_range.  key_range gives the   *)
(* shares of the keys below, at and above a key; they are held here as     *)
(* numbers of keys, the share times bt_nkeys.                              *)
(***************************************************************************)
CheckRange(range) ==
  IF range.start_key = EmptyKey \/ range.end_key = EmptyKey THEN "EILLEGAL_PARAMTETERS"
  ELSE IF StrLeq(range.end_key, range.start_key) THEN "EILLEGAL_PARAMTETERS"
  ELSE "OK"

KeyRange(store, key) ==
  [less |-> Cardinality({rk \in Present(store) : StrLess(rk, key)}),
   equal |-> Cardinality({rk \in Present(store) : rk = key}),
   greater |-> Cardinality({rk \in Present(store) : StrLess(key, rk)})]

\* the loop over the ranges: a count is pushed when it is greater than 0
RECURSIVE ApproximateCounts(_, _, _, _)
ApproximateCounts(store, cf_name, ranges, result_counts) ==
  IF ranges = <<>> THEN result_counts
  ELSE IF CheckRange(Head(ranges)) # "OK" THEN <<>>
  ELSE LET bdb_total_key_count == Cardinality(Present(store))
           range_start == KeyRange(store, EncodeKey(cf_name, Head(ranges).start_key))
           range_end == KeyRange(store, EncodeKey(cf_name, Head(ranges).end_key))
           range_result ==
             bdb_total_key_count - range_start.less - range_end.equal - range_end.greater
           count == IF range_result > 0 THEN range_result ELSE 0
       IN ApproximateCounts(store, cf_name, Tail(ranges),
                            IF count > 0 THEN Append(result_counts, count) ELSE result_counts)

\* `failed`: Db::stat or Db::key_range returns non-zero or throws
GetApproximateSizes(store, cf_name, ranges, failed) ==
  IF failed THEN <<>> ELSE ApproximateCounts(store, cf_name, ranges, <<>>)

(***************************************************************************)
(* The calls made to the writer.                                           *)
(***************************************************************************)
KeysOrEmpty == UserKeys \cup {EmptyKey}

\* key lists: none, one key, two keys in order
KeyLists ==
  {<<>>} \cup {<<k>> : k \in UserKeys}
         \cup {<<p[1], p[2]>> : p \in {q \in UserKeys \X UserKeys : StrLess(q[1], q[2])}}

\* at most one put per column family, the value "v2"
PutsWithCf ==
  {<<>>, <<[cf |-> "default", list |-> <<>>]>>}
    \cup {<<[cf |-> "default", list |-> <<[key |-> k, value |-> "v2"]>>]>> : k \in KeysOrEmpty}
    \cup {<<[cf |-> "default", list |-> <<[key |-> k, value |-> "v2"]>>],
            [cf |-> "meta", list |-> <<[key |-> k, value |-> "v2"]>>]>> : k \in UserKeys}

\* at most one delete, in one column family
DeletesWithCf ==
  {<<>>} \cup {<<[cf |-> cf, list |-> <<>>]>> : cf \in CfNames}
         \cup {<<[cf |-> cf, list |-> <<k>>]>> : cf \in CfNames, k \in KeysOrEmpty}

RangeEnds == {<<b>> : b \in 1..(MaxKey + 1)}
ValidRanges ==
  {r \in [start_key : RangeEnds, end_key : RangeEnds] : StrLess(r.start_key, r.end_key)}
\* with one range whose start is empty and one whose ends are swapped
Ranges ==
  ValidRanges \cup {[start_key |-> EmptyKey, end_key |-> <<1>>],
                    [start_key |-> <<2>>, end_key |-> <<1>>]}

\* the ranges scanned: those, and the ranges whose ends are equal
ScanRanges == Ranges \cup {[start_key |-> k, end_key |-> k] : k \in UserKeys}

\* range_with_cfs in the order the std::map is walked: no range, one range,
\* or a valid range followed by one more in the same or the next family
RangesWithCf ==
  {<<>>} \cup {<<[cf |-> cf, range |-> r]>> : cf \in CfNames, r \in Ranges}
         \cup {<<[cf |-> "default", range |-> r1], [cf |-> cf, range |-> r2]>> :
                 cf \in CfNames, r1 \in ValidRanges, r2 \in Ranges}

WriteRequests ==
  [op : {"KvPut"}, cf : CfNames, key : KeysOrEmpty, value : Values]
  \cup [op : {"KvBatchDelete"}, cf : CfNames, keys : KeyLists]
  \cup [op : {"KvBatchPutAndDelete"}, puts : PutsWithCf, deletes : DeletesWithCf]

\* the range deletes, and the puts that fill the tree for them
RangeRequests ==
  [op : {"KvPut"}, cf : CfNames, key : UserKeys, value : {"v1"}]
  \cup [op : {"KvDeleteRange"}, cf : CfNames, range : Ranges]
  \cup [op : {"KvBatchDeleteRange"}, ranges : RangesWithCf]

EmptyDb == [rk \in RawKeys |-> NoValue]

(***************************************************************************)
(* The engine after BdbRawEngine::Init: an empty B-tree, no call in        *)
(* flight, no snapshot.                                                    *)
(***************************************************************************)
InitEngine ==
  /\ db = EmptyDb
  /\ e_pc = "idle"
  /\ e_req = NoReq
  /\ e_pre = EmptyDb
  /\ e_resp = NoResp
  /\ e_todo = <<>>
  /\ snapshot = NoSnapshot
  /\ r_resp = NoRead

\* a caller hands a request to the writer
InvokeWriter ==
  /\ e_pc = "idle"
  /\ \E req \in WriteRequests : e_req' = req
  /\ e_pc' = "called"
  /\ e_pre' = db
  /\ UNCHANGED <<db, e_resp, e_todo, snapshot, r_resp, notEngine>>

InvokeRangeDelete ==
  /\ e_pc = "idle"
  /\ \E req \in RangeRequests : e_req' = req
  /\ e_pc' = "called"
  /\ e_pre' = db
  /\ UNCHANGED <<db, e_resp, e_todo, snapshot, r_resp, notEngine>>

\* the call ends with result r after `deadlocks` deadlocked attempts
Finish(r, deadlocks) ==
  /\ db' = r.db
  /\ e_resp' = [status |-> r.status, retry_count |-> r.retry_count, deadlocks |-> deadlocks]
  /\ e_pc' = "done"
  /\ e_todo' = <<>>
  /\ UNCHANGED <<e_req, e_pre, snapshot, r_resp, notEngine>>

WriterKvPut ==
  /\ e_pc = "called" /\ e_req.op = "KvPut"
  /\ \E deadlocks \in (IF e_req.key = EmptyKey THEN {0} ELSE DeadlockRuns), fault \in Faults(1) :
       Finish(KvPut(db, e_req.cf, e_req.key, e_req.value, deadlocks, fault), deadlocks)

WriterKvBatchDelete ==
  /\ e_pc = "called" /\ e_req.op = "KvBatchDelete"
  /\ \E deadlocks \in (IF e_req.keys = <<>> THEN {0} ELSE DeadlockRuns), fault \in Faults(1) :
       Finish(KvBatchDelete(db, e_req.cf, e_req.keys, deadlocks, fault), deadlocks)

WriterKvBatchPutAndDelete ==
  /\ e_pc = "called" /\ e_req.op = "KvBatchPutAndDelete"
  /\ \E deadlocks \in DeadlockRuns, fault \in Faults(3) :
       Finish(KvBatchPutAndDelete(db, e_req.puts, e_req.deletes, deadlocks, fault), deadlocks)

\* KvDeleteRange checks the range, then deletes the one range as a batch
WriterKvDeleteRange ==
  /\ e_pc = "called" /\ e_req.op = "KvDeleteRange"
  /\ IF \/ e_req.range.start_key = EmptyKey \/ e_req.range.end_key = EmptyKey
        \/ StrLeq(e_req.range.end_key, e_req.range.start_key)
     THEN Finish(Ended("EILLEGAL_PARAMTETERS", db), 0)
     ELSE /\ e_todo' = <<[cf |-> e_req.cf, range |-> e_req.range]>>
          /\ e_pc' = "running"
          /\ UNCHANGED <<db, e_req, e_pre, e_resp, snapshot, r_resp, notEngine>>

\* BDB_BUILD_USE_BULK_DELETE is defined: KvBatchDeleteRange is the bulk one
WriterKvBatchDeleteRange ==
  /\ e_pc = "called" /\ e_req.op = "KvBatchDeleteRange"
  /\ e_todo' = e_req.ranges
  /\ e_pc' = "running"
  /\ UNCHANGED <<db, e_req, e_pre, e_resp, snapshot, r_resp, notEngine>>

\* the loop over the ranges: each range is read and deleted in a transaction
\* of its own; the first status that is not OK ends the call
KvBatchDeleteRangeBulk ==
  /\ e_pc = "running"
  /\ IF e_todo = <<>> THEN Finish(Ended("OK", db), 0)
     ELSE \E scan_fault \in ScanFaults, deadlocks \in DeadlockRuns, fault \in Faults(1) :
       LET r == BulkDeleteRange(db, Head(e_todo).cf, Head(e_todo).range,
                                scan_fault, deadlocks, fault)
       IN IF r.status # "OK" THEN Finish(r, 0)
          ELSE /\ db' = r.db
               /\ e_todo' = Tail(e_todo)
               /\ UNCHANGED <<e_pc, e_req, e_pre, e_resp, snapshot, r_resp, notEngine>>

\* the status goes back to the caller
ReturnWriter ==
  /\ e_pc = "done"
  /\ e_pc' = "idle"
  /\ e_req' = NoReq
  /\ e_pre' = EmptyDb
  /\ e_resp' = NoResp
  /\ UNCHANGED <<db, e_todo, snapshot, r_resp, notEngine>>

(***************************************************************************)
(* A caller of Reader::NewIterator and of the Iterator it returns.         *)
(***************************************************************************)
IteratorOptionsSet ==
  [cf : CfNames, lower_bound : KeysOrEmpty, upper_bound : RangeEnds \cup {EmptyKey}]

NoOptions ==
  [cf |-> "default", lower_bound |-> EmptyKey, upper_bound |-> EmptyKey]

SeekTargets == KeysOrEmpty \cup RangeEnds

InitIter ==
  /\ i_open = FALSE
  /\ i_opts = NoOptions
  /\ i_it = Iterator("default", EmptyKey, EmptyKey)
  /\ i_cur = NotFound

\* what the cursor reads: the caller passes no snapshot, the cursor is a
\* DB_READ_COMMITTED one and reads the committed data
IterContent == db

\* Reader::NewIterator: nullptr when the cursor cannot be made
NewIterator ==
  /\ ~i_open /\ e_pc = "idle"
  /\ \E options \in IteratorOptionsSet, failed \in BOOLEAN :
       IF failed THEN UNCHANGED iterVars
       ELSE /\ i_open' = TRUE
            /\ i_opts' = options
            /\ i_it' = Iterator(options.cf, options.lower_bound, options.upper_bound)
            /\ i_cur' = NotFound
  /\ UNCHANGED <<engineVars, notIter>>

Positioned(moved) ==
  /\ i_open /\ e_pc = "idle"
  /\ i_it' = moved.it
  /\ i_cur' = moved.cur
  /\ UNCHANGED <<i_open, i_opts, engineVars, notIter>>

DoSeek ==
  \E target \in SeekTargets, failed \in BOOLEAN :
    Positioned(IteratorSeek(i_it, i_cur, IterContent, target, failed))

DoSeekForPrev ==
  \E target \in SeekTargets, failed \in BOOLEAN :
    Positioned(SeekForPrev(i_it, i_cur, IterContent, target, failed))

DoSeekToFirst ==
  \E failed \in BOOLEAN : Positioned(SeekToFirst(i_it, i_cur, IterContent, failed))

DoSeekToLast ==
  \E failed \in BOOLEAN : Positioned(SeekToLast(i_it, i_cur, IterContent, failed))

DoNext ==
  \E failed \in BOOLEAN : Positioned(IteratorNext(i_it, i_cur, IterContent, failed))

DoPrev ==
  \E failed \in BOOLEAN : Positioned(IteratorPrev(i_it, i_cur, IterContent, failed))

\* ~Iterator
CloseIterator ==
  /\ i_open /\ e_pc = "idle"
  /\ i_open' = FALSE
  /\ i_opts' = NoOptions
  /\ i_it' = Iterator("default", EmptyKey, EmptyKey)
  /\ i_cur' = NotFound
  /\ UNCHANGED <<engineVars, notIter>>

\* the writes made while a snapshot is read
SnapRequests ==
  [op : {"KvPut"}, cf : CfNames, key : UserKeys, value : {"v1"}]
  \cup [op : {"KvBatchDelete"}, cf : CfNames, keys : {<<k>> : k \in UserKeys}]

InvokeSnapWriter ==
  /\ e_pc = "idle" /\ r_resp = NoRead
  /\ \E req \in SnapRequests : e_req' = req
  /\ e_pc' = "called"
  /\ e_pre' = db
  /\ UNCHANGED <<db, e_resp, e_todo, snapshot, r_resp, notEngine>>

\* the caller fills the store before it iterates
InvokeIterWriter ==
  /\ ~i_open
  /\ InvokeSnapWriter

\* the caller takes the snapshot it will read through
EngineGetSnapshot ==
  /\ ~snapshot.live
  /\ \E deadlocks \in {0, 1}, fault \in Faults(1) :
       snapshot' = GetSnapshot(db, 0, deadlocks, fault)
  /\ UNCHANGED <<db, e_pc, e_req, e_pre, e_resp, e_todo, r_resp, notEngine>>

\* ~BdbSnapshot, when the last holder lets go of it
ReleaseSnapshot ==
  /\ snapshot.live /\ r_resp = NoRead
  /\ snapshot' = NoSnapshot
  /\ UNCHANGED <<db, e_pc, e_req, e_pre, e_resp, e_todo, r_resp, notEngine>>

\* a point read, through the snapshot held or with none
ReaderKvGet ==
  /\ e_pc = "idle" /\ r_resp = NoRead
  /\ \E cf \in CfNames, key \in KeysOrEmpty, ss \in {snapshot, NoSnapshot}, fault \in Faults(0) :
       LET r == KvGet(db, cf, ss, key, fault)
       IN r_resp' = [op |-> "KvGet", cf |-> cf, key |-> key, by_snapshot |-> ss.live,
                     status |-> r.status, value |-> r.value]
  /\ UNCHANGED <<db, e_pc, e_req, e_pre, e_resp, e_todo, snapshot, notEngine>>

\* a range read by an iterator made from the snapshot held, or from none
ReaderKvScan ==
  /\ e_pc = "idle" /\ r_resp = NoRead
  /\ \E cf \in CfNames, range \in ScanRanges, ss \in {snapshot, NoSnapshot},
        scan_fault \in ScanFaults :
       LET r == KvScan(db, cf, ss, range.start_key, range.end_key, scan_fault)
       IN r_resp' = [op |-> "KvScan", cf |-> cf, range |-> range, by_snapshot |-> ss.live,
                     status |-> r.status, iter_status |-> r.iter_status, kvs |-> r.kvs]
  /\ UNCHANGED <<db, e_pc, e_req, e_pre, e_resp, e_todo, snapshot, notEngine>>

\* the lists of ranges sized: none, one range, two ranges
RangeLists ==
  {<<>>} \cup {<<r>> : r \in Ranges} \cup {<<r1, r2>> : r1 \in ValidRanges, r2 \in Ranges}

EngineGetApproximateSizes ==
  /\ e_pc = "idle" /\ r_resp = NoRead
  /\ \E cf \in CfNames, ranges \in RangeLists, failed \in BOOLEAN :
       r_resp' = [op |-> "GetApproximateSizes", cf |-> cf, ranges |-> ranges,
                  failed |-> failed,
                  counts |-> GetApproximateSizes(db, cf, ranges, failed)]
  /\ UNCHANGED <<db, e_pc, e_req, e_pre, e_resp, e_todo, snapshot, notEngine>>

ReturnReader ==
  /\ r_resp # NoRead
  /\ r_resp' = NoRead
  /\ UNCHANGED <<db, e_pc, e_req, e_pre, e_resp, e_todo, snapshot, notEngine>>

(***************************************************************************)
(* GetSnapshot step by step: txn_begin, Db::cursor, Dbc::get(DB_FIRST).    *)
(* An attempt can end at any of the three, by a deadlock, by another       *)
(* exception or by a return value that is not 0.                           *)
(***************************************************************************)
\* the steps of an attempt: 0 txn_begin, 1 cursor, 2 get
SnapshotSteps == 0..2
SnapshotFaults == {NoFault} \cup [at : SnapshotSteps, kind : {"err", "exc"}]

\* what an attempt has begun and not ended when it leaves the try block at a
\* step: txn and cursorp are locals of the block, and no handler ends them
HeldAt(step) ==
  [txns |-> IF step >= 1 THEN 1 ELSE 0, cursors |-> IF step >= 2 THEN 1 ELSE 0]

\* the transactions and cursors that GetSnapshot has begun and that nothing
\* owns when it returns: those of each deadlocked attempt and of the failed one
Unreleased(deadlocks, deadlock_at, fault) ==
  LET last == IF fault.kind = "none" THEN HeldAt(0) ELSE HeldAt(fault.at)
  IN [txns |-> deadlocks * HeldAt(deadlock_at).txns + last.txns,
      cursors |-> deadlocks * HeldAt(deadlock_at).cursors + last.cursors]

\* a caller asks for a snapshot while the engine deadlocks and fails
EngineGetSnapshotUnderFaults ==
  /\ ~snapshot.live /\ r_resp = NoRead
  /\ \E deadlocks \in DeadlockRuns, deadlock_at \in SnapshotSteps, fault \in SnapshotFaults :
       LET ss == GetSnapshot(db, 0, deadlocks, fault)
       IN /\ snapshot' = ss
          /\ r_resp' = [op |-> "GetSnapshot", deadlocks |-> deadlocks,
                        deadlock_at |-> deadlock_at, fault |-> fault, got |-> ss.live,
                        unreleased |-> Unreleased(deadlocks, deadlock_at, fault)]
  /\ UNCHANGED <<db, e_pc, e_req, e_pre, e_resp, e_todo, notEngine>>

(***************************************************************************)
(* The transactions of the engine and bdb_transaction_alive_count.  A call *)
(* is told by what it did to the transaction of its last attempt: whether  *)
(* txn_begin gave one, what was added to and taken from the counter, and   *)
(* how often commit and abort were called on it.  DbTxn::commit and        *)
(* DbTxn::abort end the transaction and free its handle whatever they      *)
(* return or throw; a later call on the handle is a call on freed memory,  *)
(* which returns or ends the process.  The counter is a                    *)
(* bvar::Adder<uint64_t>: t_alive is the integer that the values added sum *)
(* to, and a reader gets its residue modulo 2^64.                          *)
(***************************************************************************)
TxnDone(begun, added, commit_calls, abort_calls, removed) ==
  [begun |-> begun, added |-> added, commit_calls |-> commit_calls,
   abort_calls |-> abort_calls, removed |-> removed]

NoTxn == TxnDone(0, 0, 0, 0, 0)

\* what a call on a freed handle does
DanglingCall == {"returns", "terminates"}

\* the calls that ended the transaction
EndCalls(txn) == txn.commit_calls + txn.abort_calls

\* the attempt of KvPut that does not deadlock: txn_begin, put, commit, and
\* the DEFER that aborts a txn that is not nullptr when KvPut returns
KvPutAttempt(fault) ==
  IF fault.at = 0
  THEN IF fault.kind = "err" THEN TxnDone(0, 1, 0, 0, 0) ELSE NoTxn
  ELSE IF fault.at = 1 THEN TxnDone(1, 1, 0, 1, 1)
  ELSE IF fault.at = 2
  THEN IF fault.kind = "err" THEN TxnDone(1, 1, 1, 1, 2) ELSE TxnDone(1, 1, 1, 1, 1)
  ELSE TxnDone(1, 1, 1, 0, 1)

\* an attempt of KvPut that ends in a DbDeadlockException, thrown by
\* txn_begin (0) or by put (1): the handler, or the DEFER when the retries
\* are used up, aborts a txn that is not nullptr
KvPutDeadlocked(deadlock_at) ==
  IF deadlock_at = 0 THEN NoTxn ELSE TxnDone(1, 1, 0, 1, 1)

InitTxn ==
  /\ t_alive = 0
  /\ t_open = 0
  /\ t_last = [op |-> "none", status |-> "none", txn |-> NoTxn, unowned |-> 0,
               alive |-> TRUE]

\* Writer::KvPut with its transactions
KvPutTransaction ==
  /\ t_last.alive
  /\ \E cf \in {"default"}, key \in KeysOrEmpty, value \in {"v1"},
        deadlocks \in DeadlockRuns, deadlock_at \in {0, 1}, fault \in Faults(1),
        dangling \in DanglingCall :
       LET r == KvPut(db, cf, key, value, deadlocks, fault)
           txn == IF key = EmptyKey THEN NoTxn
                  ELSE IF deadlocks > bdb_max_retries THEN KvPutDeadlocked(deadlock_at)
                  ELSE KvPutAttempt(fault)
           died == EndCalls(txn) > 1 /\ dangling = "terminates"
       IN /\ db' = r.db
          /\ t_alive' = t_alive + txn.added - (IF died THEN txn.removed - 1 ELSE txn.removed)
          /\ t_open' = t_open + txn.begun - (IF EndCalls(txn) > 0 THEN 1 ELSE 0)
          /\ t_last' = [op |-> "KvPut", status |-> r.status, txn |-> txn, unowned |-> 0,
                        alive |-> ~died]
  /\ UNCHANGED <<e_pc, e_req, e_pre, e_resp, e_todo, snapshot, r_resp, notTxn>>

\* the faults of GetSnapshot that this build produces: a call that fails
\* throws, and Dbc::get may also return DB_KEYEMPTY
BuildSnapshotFaults ==
  {f \in SnapshotFaults : f = NoFault \/ f.kind \in FaultKinds \/ f.at = 2}

\* BdbRawEngine::GetSnapshot with its transactions: an attempt that got
\* through txn_begin has one, and nothing ends it when the attempt fails
GetSnapshotTransaction ==
  /\ t_last.alive /\ ~snapshot.live /\ t_open < MaxOpen
  /\ \E deadlocks \in {0, 1}, deadlock_at \in SnapshotSteps, fault \in BuildSnapshotFaults :
       LET ss == GetSnapshot(db, 0, deadlocks, fault)
           unowned == Unreleased(deadlocks, deadlock_at, fault).txns
           txn == IF fault.at = 0
                  THEN IF fault.kind = "err" THEN TxnDone(0, 1, 0, 0, 0) ELSE NoTxn
                  ELSE TxnDone(1, 1, 0, 0, 0)
           before == deadlocks * HeldAt(deadlock_at).txns
       IN /\ snapshot' = ss
          /\ t_alive' = t_alive + before + txn.added
          /\ t_open' = t_open + before + txn.begun
          /\ t_last' = [op |-> "GetSnapshot", status |-> IF ss.live THEN "OK" ELSE "nullptr",
                        txn |-> txn, unowned |-> unowned, alive |-> TRUE]
  /\ UNCHANGED <<db, e_pc, e_req, e_pre, e_resp, e_todo, r_resp, notTxn>>

\* BdbSnapshot::~BdbSnapshot: abort, and abort once more when the first
\* abort threw or did not return 0
DestroySnapshot ==
  /\ t_last.alive /\ snapshot.live
  /\ \E kind \in {NoFault.kind} \cup FaultKinds, dangling \in DanglingCall :
       LET txn == IF kind = "none" THEN TxnDone(0, 0, 0, 1, 1)
                  ELSE IF kind = "err" THEN TxnDone(0, 0, 0, 2, 2)
                  ELSE TxnDone(0, 0, 0, 2, 1)
           died == EndCalls(txn) > 1 /\ dangling = "terminates"
       IN /\ snapshot' = NoSnapshot
          /\ t_alive' = t_alive - (IF died THEN txn.removed - 1 ELSE txn.removed)
          /\ t_open' = t_open - 1
          /\ t_last' = [op |-> "~BdbSnapshot",
                        status |-> IF kind = "none" THEN "OK" ELSE "EBDB_COMMIT",
                        txn |-> txn, unowned |-> 0, alive |-> ~died]
  /\ UNCHANGED <<db, e_pc, e_req, e_pre, e_resp, e_todo, r_resp, notTxn>>

\* C40: every transaction is ended by one call, commit or abort, and none is
\* aborted after commit was called on it; the writer ends the transaction
\* it began and no call leaves one that nothing owns; the counter is
\* incremented only for a transaction that was begun, and while the process
\* runs it equals the number of open transactions and is not negative
C40_TransactionsFinishedOnce ==
  /\ EndCalls(t_last.txn) <= 1
  /\ t_last.op = "KvPut" => EndCalls(t_last.txn) = t_last.txn.begun
  /\ t_last.unowned = 0
  /\ t_last.txn.added = t_last.txn.begun
  /\ t_last.alive => (t_alive = t_open /\ t_alive >= 0)

(***************************************************************************)
(* Single puts and deletes with the history of the writes kept: k_last     *)
(* holds for each raw key the latest write that returned OK, "deleted"     *)
(* for a delete, "never" when there was none.                              *)
(***************************************************************************)
Never == "never"
Deleted == "deleted"

KvRequests ==
  [op : {"KvPut"}, cf : CfNames, key : KeysOrEmpty, value : Values]
  \cup [op : {"KvDelete"}, cf : CfNames, key : KeysOrEmpty]

InitHistory == k_last = [rk \in RawKeys |-> Never]

InvokeKv ==
  /\ e_pc = "idle" /\ r_resp = NoRead
  /\ \E req \in KvRequests : e_req' = req
  /\ e_pc' = "called"
  /\ e_pre' = db
  /\ UNCHANGED <<db, e_resp, e_todo, snapshot, r_resp, notEngine>>

\* the call ends with result r; a write that returned OK enters the history
FinishKv(r, deadlocks, written) ==
  /\ db' = r.db
  /\ e_resp' = [status |-> r.status, retry_count |-> r.retry_count, deadlocks |-> deadlocks]
  /\ e_pc' = "done"
  /\ e_todo' = <<>>
  /\ k_last' = IF r.status = "OK"
               THEN [k_last EXCEPT ![EncodeKey(e_req.cf, e_req.key)] = written]
               ELSE k_last
  /\ UNCHANGED <<e_req, e_pre, snapshot, r_resp, serviceVars, coordVars, iterVars, metaVars, safeMapVars, latchVars, txnVars>>

KvWriterKvPut ==
  /\ e_pc = "called" /\ e_req.op = "KvPut"
  /\ \E deadlocks \in (IF e_req.key = EmptyKey THEN {0} ELSE DeadlockRuns), fault \in Faults(1) :
       FinishKv(KvPut(db, e_req.cf, e_req.key, e_req.value, deadlocks, fault), deadlocks,
                e_req.value)

KvWriterKvDelete ==
  /\ e_pc = "called" /\ e_req.op = "KvDelete"
  /\ \E deadlocks \in (IF e_req.key = EmptyKey THEN {0} ELSE DeadlockRuns), fault \in Faults(1) :
       FinishKv(KvDelete(db, e_req.cf, e_req.key, deadlocks, fault), deadlocks, Deleted)

\* a point read of the committed content
KvReaderKvGet ==
  /\ e_pc = "idle" /\ r_resp = NoRead
  /\ \E cf \in CfNames, key \in KeysOrEmpty, fault \in Faults(0) :
       LET r == KvGet(db, cf, NoSnapshot, key, fault)
       IN r_resp' = [op |-> "KvGet", cf |-> cf, key |-> key, by_snapshot |-> FALSE,
                     status |-> r.status, value |-> r.value]
  /\ UNCHANGED <<db, e_pc, e_req, e_pre, e_resp, e_todo, snapshot, notEngine>>

(***************************************************************************)
(* The document service: one RPC at a time is followed from the handler    *)
(* through the worker set to its closure.  A request is described by what  *)
(* is wrong with it.                                                       *)
(***************************************************************************)
DefectKinds ==
  {"no_region", "epoch", "region_id_zero", "empty", "batch_count", "request_size",
   "not_leader", "index_build_error", "index_not_ready", "illegal_id", "region",
   "primary_key", "ts_zero", "key_empty"}

DefectSets == {d \in SUBSET DefectKinds : Cardinality(d) <= MaxDefects}

\* DEFINE_bool(enable_async_document_operation, true, ...)
enable_async_document_operation == TRUE

\* what the raft address in a NOT_LEADER error resolves to: a node of the local
\* store map, a node only a remote query finds, no node, or no address at all
LeaderAddrs == {"local", "remote", "unknown", "invalid"}

NoRpc ==
  [method |-> "none", defects |-> {}, raft_exceed |-> FALSE, bg_exceed |-> FALSE,
   leader_addr |-> "invalid"]
NoResponse ==
  [errcode |-> "OK", time_info |-> FALSE, leader_location |-> FALSE, store_id |-> FALSE,
   region_info |-> FALSE]

\* the constructor: the region is looked up, a missing one is an error already
ServiceClosure(req) ==
  [errcode |-> IF "no_region" \in req.defects THEN "EREGION_NOT_FOUND" ELSE "OK",
   time_info |-> FALSE, leader_location |-> FALSE, store_id |-> FALSE,
   region_info |-> FALSE]

SetError(resp, errcode) == [resp EXCEPT !.errcode = errcode]

\* ServiceHelper::GetStoreRegionInfo(region, error): the region's definition and
\* epoch are put into the error
GetStoreRegionInfo(resp) == [resp EXCEPT !.region_info = TRUE]

\* a redirect that asks the local store map only
NodeInfoLocalOnly(addr) ==
  IF addr = "invalid" THEN 0
  ELSE IF addr = "local" THEN 1
  ELSE 0

\* RedirectLeader(addr): the id of the node the address resolves to, 0 for none
NodeInfo(addr) ==
  IF addr = "invalid" THEN 0
  ELSE IF addr = "local" THEN 1
  ELSE IF addr = "remote" THEN 1
  ELSE 0

\* RedirectLeader(addr, response): the leader's location, or else this store's id
RedirectLeader(addr, resp) ==
  IF NodeInfo(addr) # 0 THEN [resp EXCEPT !.leader_location = TRUE]
  ELSE [resp EXCEPT !.store_id = TRUE]

\* Run: the timing is stamped, a NOT_LEADER error is redirected to the leader
ServiceClosureRun(req, resp) ==
  LET stamped == [resp EXCEPT !.time_info = TRUE]
  IN IF stamped.errcode = "ERAFT_NOTLEADER" THEN RedirectLeader(req.leader_addr, stamped)
     ELSE stamped

ValidateClusterReadOnly(read_only) == IF read_only THEN "ECLUSTER_READ_ONLY" ELSE "OK"

\* VectorIndexWrapper / DocumentIndexWrapper: IsReady, IsBuildError
IndexStatus(d) ==
  IF "index_build_error" \in d THEN "EDOCUMENT_INDEX_BUILD_ERROR"
  ELSE IF "index_not_ready" \in d THEN "EDOCUMENT_INDEX_NOT_READY"
  ELSE "OK"

ValidateDocumentBatchQueryRequest(d) ==
  IF "epoch" \in d THEN "EREGION_VERSION"
  ELSE IF "region_id_zero" \in d THEN "EILLEGAL_PARAMTETERS"
  ELSE IF "empty" \in d THEN "EILLEGAL_PARAMTETERS"
  ELSE IF "batch_count" \in d THEN "EDOCUMENT_EXCEED_MAX_BATCH_COUNT"
  ELSE IF "not_leader" \in d THEN "ERAFT_NOTLEADER"
  ELSE IF "region" \in d THEN "EKEY_OUT_OF_RANGE"
  ELSE "OK"

ValidateDocumentAddRequest(d, read_only) ==
  IF "epoch" \in d THEN "EREGION_VERSION"
  ELSE IF "region_id_zero" \in d THEN "EILLEGAL_PARAMTETERS"
  ELSE IF "empty" \in d THEN "EDOCUMENT_EMPTY"
  ELSE IF "batch_count" \in d THEN "EDOCUMENT_EXCEED_MAX_BATCH_COUNT"
  ELSE IF "request_size" \in d THEN "EDOCUMENT_EXCEED_MAX_REQUEST_SIZE"
  ELSE IF "not_leader" \in d THEN "ERAFT_NOTLEADER"
  ELSE IF IndexStatus(d) # "OK" THEN IndexStatus(d)
  ELSE IF "illegal_id" \in d THEN "EILLEGAL_PARAMTETERS"
  ELSE IF ValidateClusterReadOnly(read_only) # "OK" THEN ValidateClusterReadOnly(read_only)
  ELSE IF "region" \in d THEN "EKEY_OUT_OF_RANGE"
  ELSE "OK"

ValidateDocumentDeleteRequest(d, read_only) ==
  IF "epoch" \in d THEN "EREGION_VERSION"
  ELSE IF "region_id_zero" \in d THEN "EILLEGAL_PARAMTETERS"
  ELSE IF "empty" \in d THEN "EDOCUMENT_EMPTY"
  ELSE IF "batch_count" \in d THEN "EDOCUMENT_EXCEED_MAX_BATCH_COUNT"
  ELSE IF "not_leader" \in d THEN "ERAFT_NOTLEADER"
  ELSE IF IndexStatus(d) # "OK" THEN IndexStatus(d)
  ELSE IF "region" \in d THEN "EKEY_OUT_OF_RANGE"
  ELSE "OK"

VectorValidateTxnCheckTxnStatusRequest(d, read_only) ==
  IF "epoch" \in d THEN "EREGION_VERSION"
  ELSE IF "primary_key" \in d THEN "EILLEGAL_PARAMTETERS"
  ELSE IF "ts_zero" \in d THEN "EILLEGAL_PARAMTETERS"
  ELSE IF ValidateClusterReadOnly(read_only) # "OK" THEN ValidateClusterReadOnly(read_only)
  ELSE IF "region" \in d THEN "EKEY_OUT_OF_RANGE"
  ELSE IndexStatus(d)

VectorValidateTxnResolveLockRequest(d, read_only) ==
  IF "epoch" \in d THEN "EREGION_VERSION"
  ELSE IF "ts_zero" \in d THEN "EILLEGAL_PARAMTETERS"
  ELSE IF "key_empty" \in d THEN "EKEY_EMPTY"
  ELSE IF "region" \in d THEN "EKEY_OUT_OF_RANGE"
  ELSE IF IndexStatus(d) # "OK" THEN IndexStatus(d)
  ELSE ValidateClusterReadOnly(read_only)

Methods == {"DocumentBatchQuery", "DocumentAdd", "DocumentDelete", "TxnCheckTxnStatus", "TxnResolveLock"}
WriteMethods == Methods \ {"DocumentBatchQuery"}
WorkerSetOf(method) == IF method \in WriteMethods THEN "write" ELSE "read"

Validate(req, read_only) ==
  IF req.method = "DocumentBatchQuery" THEN ValidateDocumentBatchQueryRequest(req.defects)
  ELSE IF req.method = "DocumentAdd" THEN ValidateDocumentAddRequest(req.defects, read_only)
  ELSE IF req.method = "DocumentDelete" THEN ValidateDocumentDeleteRequest(req.defects, read_only)
  ELSE IF req.method = "TxnCheckTxnStatus"
  THEN VectorValidateTxnCheckTxnStatusRequest(req.defects, read_only)
  ELSE VectorValidateTxnResolveLockRequest(req.defects, read_only)

\* WorkerSet::ExecuteRR takes the task unless the set is full
ExecuteRR(set) == s_busy[set] < MaxPending

InitService ==
  /\ s_pc = "idle"
  /\ s_req = NoRpc
  /\ s_resp = NoResponse
  /\ s_runs = 0
  /\ s_handed = FALSE
  /\ s_read_only = FALSE
  /\ s_busy = [set \in {"read", "write"} |-> 0]

Rpcs(method) ==
  {r \in [method : {method}, defects : DefectSets, raft_exceed : BOOLEAN, bg_exceed : BOOLEAN,
          leader_addr : LeaderAddrs] :
     "not_leader" \notin r.defects => r.leader_addr = "invalid"}

\* the handler returns with the closure run: ClosureGuard done_guard(svr_done)
Guarded(req, resp) ==
  /\ s_pc' = "finished"
  /\ s_req' = req
  /\ s_resp' = ServiceClosureRun(req, resp)
  /\ s_runs' = 1
  /\ UNCHANGED <<s_handed, s_read_only, s_busy, notService>>

\* the handler returns and its task waits in the worker set
Queued(req) ==
  /\ s_pc' = "queued"
  /\ s_req' = req
  /\ s_resp' = ServiceClosure(req)
  /\ s_runs' = 0
  /\ UNCHANGED <<s_handed, s_read_only, s_busy, notService>>

\* the handler returns, and nothing has run the closure
Unguarded(req, resp) ==
  /\ s_pc' = "finished"
  /\ s_req' = req
  /\ s_resp' = resp
  /\ s_runs' = 0
  /\ UNCHANGED <<s_handed, s_read_only, s_busy, notService>>

\* the worker ends the task: DoXxx's ClosureGuard runs the closure
Worked(resp, handed) ==
  /\ s_pc' = "finished"
  /\ s_resp' = ServiceClosureRun(s_req, resp)
  /\ s_runs' = s_runs + 1
  /\ s_handed' = handed
  /\ UNCHANGED <<s_req, s_read_only, s_busy, notService>>

\* the body shared by the DoXxx functions: region, validation, storage
DoRequest(storage_ok) ==
  IF "no_region" \in s_req.defects
  THEN Worked(SetError(s_resp, "EREGION_NOT_FOUND"), FALSE)
  ELSE IF Validate(s_req, s_read_only) # "OK"
  THEN Worked(GetStoreRegionInfo(SetError(s_resp, Validate(s_req, s_read_only))), FALSE)
  ELSE Worked(IF storage_ok THEN s_resp ELSE SetError(s_resp, "EINTERNAL"), TRUE)

DocumentBatchQuery ==
  /\ s_pc = "idle"
  /\ \E req \in Rpcs("DocumentBatchQuery") :
       IF ~enable_async_document_operation THEN Queued(req)
       ELSE IF ~ExecuteRR("read")
       THEN Guarded(req, SetError(ServiceClosure(req), "EREQUEST_FULL"))
       ELSE Queued(req)

DoDocumentBatchQuery ==
  /\ s_pc = "queued" /\ s_req.method = "DocumentBatchQuery"
  /\ \E storage_ok \in BOOLEAN : DoRequest(storage_ok)

DocumentAdd ==
  /\ s_pc = "idle"
  /\ \E req \in Rpcs("DocumentAdd") :
       IF req.raft_exceed THEN Guarded(req, SetError(ServiceClosure(req), "EREQUEST_FULL"))
       ELSE IF req.bg_exceed THEN Guarded(req, SetError(ServiceClosure(req), "EREQUEST_FULL"))
       ELSE IF ~ExecuteRR("write")
       THEN Guarded(req, SetError(ServiceClosure(req), "EREQUEST_FULL"))
       ELSE Queued(req)

DoDocumentAdd ==
  /\ s_pc = "queued" /\ s_req.method = "DocumentAdd"
  /\ \E storage_ok \in BOOLEAN : DoRequest(storage_ok)

DocumentDelete ==
  /\ s_pc = "idle"
  /\ \E req \in Rpcs("DocumentDelete") :
       IF req.raft_exceed THEN Guarded(req, SetError(ServiceClosure(req), "EREQUEST_FULL"))
       ELSE IF ~ExecuteRR("write")
       THEN Guarded(req, SetError(ServiceClosure(req), "EREQUEST_FULL"))
       ELSE Queued(req)

DoDocumentDelete ==
  /\ s_pc = "queued" /\ s_req.method = "DocumentDelete"
  /\ \E storage_ok \in BOOLEAN : DoRequest(storage_ok)

\* TxnCheckTxnStatus and TxnResolveLock look the region up and validate in
\* the handler, before the task is queued
TxnHandler(req) ==
  IF req.raft_exceed THEN Guarded(req, SetError(ServiceClosure(req), "EREQUEST_FULL"))
  ELSE IF req.bg_exceed THEN Guarded(req, SetError(ServiceClosure(req), "EREQUEST_FULL"))
  ELSE IF "no_region" \in req.defects
  THEN Guarded(req, SetError(ServiceClosure(req), "EREGION_NOT_FOUND"))
  ELSE IF Validate(req, s_read_only) # "OK"
  THEN Unguarded(req, SetError(ServiceClosure(req), Validate(req, s_read_only)))
  ELSE IF ~ExecuteRR("write")
  THEN Guarded(req, SetError(ServiceClosure(req), "EREQUEST_FULL"))
  ELSE Queued(req)

TxnCheckTxnStatus ==
  /\ s_pc = "idle"
  /\ \E req \in Rpcs("TxnCheckTxnStatus") : TxnHandler(req)

TxnResolveLock ==
  /\ s_pc = "idle"
  /\ \E req \in Rpcs("TxnResolveLock") : TxnHandler(req)

\* DoTxnCheckTxnStatus and DoTxnResolveLock: the storage call under a
\* ClosureGuard
DoTxn ==
  /\ s_pc = "queued" /\ s_req.method \in {"TxnCheckTxnStatus", "TxnResolveLock"}
  /\ \E storage_ok \in BOOLEAN :
       Worked(IF storage_ok THEN s_resp ELSE SetError(s_resp, "EINTERNAL"), TRUE)

\* the service turns to the next RPC
NextRpc ==
  /\ s_pc = "finished"
  /\ s_pc' = "idle"
  /\ s_req' = NoRpc
  /\ s_resp' = NoResponse
  /\ s_runs' = 0
  /\ s_handed' = FALSE
  /\ UNCHANGED <<s_read_only, s_busy, notService>>

\* Server::SetClusterReadOnly, between two RPCs
SetClusterReadOnly ==
  /\ s_pc = "idle"
  /\ s_read_only' = ~s_read_only
  /\ UNCHANGED <<s_pc, s_req, s_resp, s_runs, s_handed, s_busy, notService>>

\* other requests come into a worker set and leave it
WorkerSetLoad ==
  /\ s_pc = "idle"
  /\ \E set \in {"read", "write"}, n \in 0..MaxPending :
       /\ n \in {s_busy[set] - 1, s_busy[set] + 1}
       /\ s_busy' = [s_busy EXCEPT ![set] = n]
  /\ UNCHANGED <<s_pc, s_req, s_resp, s_runs, s_handed, s_read_only, notService>>

(***************************************************************************)
(* The coordinator service: one RPC at a time is followed from the handler *)
(* through the worker set to its closure.                                  *)
(***************************************************************************)
NoCoordRpc == [method |-> "none"]
NoBody == [kind |-> "none"]
NoCoordResponse == [errcode |-> "OK", time_info |-> FALSE, body |-> NoBody]

\* CoordinatorServiceClosure::Run stamps the timing
CoordinatorServiceClosureRun(resp) == [resp EXCEPT !.time_info = TRUE]

\* CoordinatorControl::RedirectResponse
RedirectResponse(resp) == [resp EXCEPT !.errcode = "ERAFT_NOTLEADER"]

\* the handler returns under its ClosureGuard done_guard(done)
Returned(req, resp) ==
  /\ c_pc' = "finished"
  /\ c_req' = req
  /\ c_resp' = resp
  /\ c_runs' = 1
  /\ UNCHANGED <<c_task, coordStateVars, notCoord>>

\* the worker set refused the task: ClosureGuard done_guard(svr_done)
Refused(req, resp) ==
  /\ c_pc' = "finished"
  /\ c_req' = req
  /\ c_resp' = CoordinatorServiceClosureRun(resp)
  /\ c_runs' = 1
  /\ c_task' = "refused"
  /\ UNCHANGED <<coordStateVars, notCoord>>

\* worker_set_->ExecuteRR(task): taken, or refused and the closure run with
\* the error the handler sets; full_errcode is "OK" for a handler that sets none
Submitted(req, full_errcode) ==
  IF c_busy < MaxPending
  THEN /\ c_pc' = "queued"
       /\ c_req' = req
       /\ c_resp' = NoCoordResponse
       /\ c_runs' = 0
       /\ UNCHANGED <<c_task, coordStateVars, notCoord>>
  ELSE Refused(req, SetError(NoCoordResponse, full_errcode))

\* the task ends: DoXxx's ClosureGuard runs the closure
Executed(resp) ==
  /\ c_pc' = "finished"
  /\ c_resp' = CoordinatorServiceClosureRun(resp)
  /\ c_runs' = c_runs + 1
  /\ c_task' = "executed"
  /\ UNCHANGED <<c_req, c_leader, c_busy, notCoord>>

(***************************************************************************)
(* The job engine: one job whose first task holds the region cmds 1 and 2  *)
(* and whose second task holds the region cmd 3.                           *)
(***************************************************************************)
JobTasks == <<{1, 2}, {3}>>
JobIds == {1}
CmdIds == UNION {JobTasks[i] : i \in 1..Len(JobTasks)}
RegionCmdStatus == {"STATUS_NONE", "STATUS_DONE", "STATUS_FAIL"}

NewJob ==
  [cmd_status |-> [c \in CmdIds |-> "STATUS_NONE"], current_task |-> 1, status |-> "RUNNING"]

\* CoordinatorControl::UpdateRegionCmdStatus: the job as the report leaves it
UpdateRegionCmdStatusControl(job, job_id, region_cmd_id, status) ==
  IF job_id \notin JobIds \/ region_cmd_id \notin CmdIds
  THEN [errcode |-> "EINTERNAL", job |-> job]
  ELSE IF job.status # "RUNNING" \/ region_cmd_id \notin JobTasks[job.current_task]
          \/ job.cmd_status[region_cmd_id] = status
  THEN [errcode |-> "OK", job |-> job]
  ELSE LET marked == [job.cmd_status EXCEPT ![region_cmd_id] = status]
           all_done == \A c \in JobTasks[job.current_task] : marked[c] = "STATUS_DONE"
       IN [errcode |-> "OK",
           job |-> [cmd_status |-> marked,
                    current_task |-> IF all_done /\ job.current_task < Len(JobTasks)
                                     THEN job.current_task + 1 ELSE job.current_task,
                    status |-> IF status = "STATUS_FAIL" THEN "FAILED"
                               ELSE IF all_done /\ job.current_task = Len(JobTasks)
                               THEN "DONE" ELSE "RUNNING"]]

UpdateRegionCmdStatusRequests ==
  [method : {"UpdateRegionCmdStatus"}, job_id : 0..(Cardinality(JobIds) + 1),
   region_cmd_id : 0..Cardinality(CmdIds), status : RegionCmdStatus]

UpdateRegionCmdStatus ==
  /\ c_pc = "idle"
  /\ \E req \in UpdateRegionCmdStatusRequests :
       IF ~c_leader THEN Returned(req, RedirectResponse(NoCoordResponse))
       ELSE IF req.job_id <= 0 THEN Returned(req, SetError(NoCoordResponse, "EILLEGAL_PARAMTETERS"))
       ELSE IF req.region_cmd_id <= 0
       THEN Returned(req, SetError(NoCoordResponse, "EILLEGAL_PARAMTETERS"))
       ELSE IF req.status = "STATUS_DONE"
       THEN Returned(req, SetError(NoCoordResponse, "EILLEGAL_PARAMTETERS"))
       ELSE Submitted(req, "OK")

DoUpdateRegionCmdStatus ==
  /\ c_pc = "queued" /\ c_req.method = "UpdateRegionCmdStatus"
  /\ \E write_ok \in BOOLEAN :
       LET ret == UpdateRegionCmdStatusControl(c_job, c_req.job_id, c_req.region_cmd_id,
                                               c_req.status)
       IN IF ~c_leader
          THEN Executed(RedirectResponse(c_resp)) /\ UNCHANGED <<c_job, c_gc, c_storemap, c_store_ops, c_cluster>>
          ELSE IF ret.errcode # "OK"
          THEN Executed(SetError(c_resp, ret.errcode)) /\ UNCHANGED <<c_job, c_gc, c_storemap, c_store_ops, c_cluster>>
          ELSE IF ret.job = c_job
          THEN Executed(c_resp) /\ UNCHANGED <<c_job, c_gc, c_storemap, c_store_ops, c_cluster>>
          ELSE IF ~write_ok
          THEN Executed(SetError(c_resp, "EINTERNAL")) /\ UNCHANGED <<c_job, c_gc, c_storemap, c_store_ops, c_cluster>>
          ELSE /\ Executed(c_resp)
               /\ c_job' = ret.job
               /\ UNCHANGED <<c_gc, c_storemap, c_store_ops, c_cluster>>

\* GetRangeRegionMap sets no error when the worker set is full
GetRangeRegionMap ==
  /\ c_pc = "idle"
  /\ LET req == [method |-> "GetRangeRegionMap"]
     IN IF ~c_leader THEN Returned(req, RedirectResponse(NoCoordResponse))
        ELSE Submitted(req, "OK")

DoGetRangeRegionMap ==
  /\ c_pc = "queued" /\ c_req.method = "GetRangeRegionMap"
  /\ \E ret_ok \in BOOLEAN :
       IF ~c_leader THEN Executed(RedirectResponse(c_resp))
       ELSE Executed([(IF ret_ok THEN c_resp ELSE SetError(c_resp, "EINTERNAL"))
                        EXCEPT !.body = [kind |-> "range_regions"]])
  /\ UNCHANGED <<c_job, c_gc, c_storemap, c_store_ops, c_cluster>>

(***************************************************************************)
(* GC safe points.                                                         *)
(***************************************************************************)
Max(a, b) == IF a >= b THEN a ELSE b

GcFlags == {"NOT_CHANGE", "GC_START", "GC_STOP"}

\* CoordinatorControl::UpdateGCSafePoint: the safe points only move forward
UpdateGCSafePointControl(gc, safe_point, gc_flag, resolve_lock_safe_point) ==
  [safe_point |-> Max(gc.safe_point, safe_point),
   resolve_lock_safe_point |-> Max(gc.resolve_lock_safe_point, resolve_lock_safe_point),
   gc_stop |-> IF gc_flag = "GC_STOP" THEN TRUE
               ELSE IF gc_flag = "GC_START" THEN FALSE ELSE gc.gc_stop]

UpdateGCSafePointRequests ==
  [method : {"UpdateGCSafePoint"}, safe_point : 0..MaxTs, gc_flag : GcFlags,
   resolve_lock_safe_point : 0..MaxTs]

UpdateGCSafePoint ==
  /\ c_pc = "idle"
  /\ \E req \in UpdateGCSafePointRequests :
       IF ~c_leader THEN Returned(req, RedirectResponse(NoCoordResponse))
       ELSE Submitted(req, "EREQUEST_FULL")

DoUpdateGCSafePoint ==
  /\ c_pc = "queued" /\ c_req.method = "UpdateGCSafePoint"
  /\ \E write_ok \in BOOLEAN :
       LET new_gc == UpdateGCSafePointControl(c_gc, c_req.safe_point, c_req.gc_flag,
                                              c_req.resolve_lock_safe_point)
           \* set_new_safe_point, set_gc_stop, then set_new_safe_point once more
           set1 == [kind |-> "gc", new_safe_point |-> new_gc.safe_point, gc_stop |-> FALSE]
           set2 == [set1 EXCEPT !.gc_stop = new_gc.gc_stop]
           set3 == [set2 EXCEPT !.new_safe_point = new_gc.resolve_lock_safe_point]
           resp == [c_resp EXCEPT !.body = set3]
       IN IF ~c_leader
          THEN Executed(RedirectResponse(c_resp)) /\ UNCHANGED c_gc
          ELSE IF new_gc = c_gc
          THEN Executed(resp) /\ UNCHANGED c_gc
          ELSE IF ~write_ok
          THEN Executed(SetError(resp, "EINTERNAL")) /\ UNCHANGED c_gc
          ELSE Executed(resp) /\ c_gc' = new_gc
  /\ UNCHANGED <<c_job, c_storemap, c_store_ops, c_cluster>>

(***************************************************************************)
(* CreateRegionId: region ids are reserved and the reservation is written  *)
(* to the raft log.                                                        *)
(***************************************************************************)
CreateRegionIdRequests ==
  [method : {"CreateRegionId"}, count : {0, 1, 2, 3, max_create_id_count + 1}]

\* CoordinatorControl::CreateRegionId: count new ids, and the id epoch that
\* reserves them in the MetaIncrement; the ids are numbered from 1 here
CreateRegionIdControl(count, ok) ==
  IF ok THEN [status |-> "OK", region_ids |-> [i \in 1..count |-> i], meta_increment |-> count]
  ELSE [status |-> "EINTERNAL", region_ids |-> <<>>, meta_increment |-> 0]

CreateRegionId ==
  /\ c_pc = "idle"
  /\ \E req \in CreateRegionIdRequests :
       IF ~c_leader THEN Returned(req, RedirectResponse(NoCoordResponse))
       ELSE Submitted(req, "EREQUEST_FULL")

DoCreateRegionId ==
  /\ c_pc = "queued" /\ c_req.method = "CreateRegionId"
  /\ \E control_ok \in BOOLEAN, write_ok \in BOOLEAN :
       LET ret == CreateRegionIdControl(c_req.count, control_ok)
           resp == IF ret.status = "OK"
                   THEN [c_resp EXCEPT !.body = [kind |-> "region_ids",
                                                 region_ids |-> ret.region_ids]]
                   ELSE SetError(c_resp, ret.status)
       IN IF ~c_leader THEN Executed(RedirectResponse(c_resp))
          ELSE IF c_req.count <= 0 THEN Executed(SetError(c_resp, "EILLEGAL_PARAMTETERS"))
          ELSE IF c_req.count > max_create_id_count
          THEN Executed(SetError(c_resp, "EILLEGAL_PARAMTETERS"))
          ELSE IF ret.meta_increment = 0 THEN Executed(resp)
          ELSE IF ~write_ok THEN Executed(SetError(resp, "EINTERNAL"))
          ELSE Executed(resp)
  /\ UNCHANGED <<c_job, c_gc, c_storemap, c_store_ops, c_cluster>>

(***************************************************************************)
(* Store heartbeats.                                                       *)
(***************************************************************************)
StoreIds == {1, 2}
Absent == "absent"
Locations == {"l1", "l2"}

\* CoordinatorControl::ValidateStore: 0 for a registered store with its keyring
ValidateStore(storemap, store) ==
  IF storemap.stores[store.id] # Absent /\ store.keyring_ok THEN 0 ELSE 1

\* CoordinatorControl::UpdateStoreMap: the map with the store as reported; the
\* epoch goes up when the store's identity changed
UpdateStoreMap(storemap, store) ==
  IF storemap.stores[store.id] = store.location THEN storemap
  ELSE [epoch |-> storemap.epoch + 1,
        stores |-> [storemap.stores EXCEPT ![store.id] = store.location]]

NoStore == [id |-> 0]

StoreHeartbeatRequests ==
  [method : {"StoreHeartbeat"}, has_store : {TRUE},
   store : [id : StoreIds, keyring_ok : BOOLEAN, location : Locations],
   has_store_metrics : BOOLEAN, is_ready_only : BOOLEAN]
  \cup [method : {"StoreHeartbeat"}, has_store : {FALSE}, store : {NoStore},
        has_store_metrics : {FALSE}, is_ready_only : {FALSE}]

NoStoreMap == [id \in StoreIds |-> Absent]

\* CoordinatorControl::GetStoreMap
GetStoreMap(storemap) == storemap.stores

\* the cluster state of the response leaves out the force-read-only flag
ClusterStateReadOnly(is_read_only, is_force_read_only) ==
  [read_only |-> is_read_only, force_read_only |-> FALSE]

\* response cluster state: each flag is set when it is up
ClusterState(is_read_only, is_force_read_only) ==
  [read_only |-> is_read_only, force_read_only |-> is_force_read_only]

HeartbeatBody ==
  [kind |-> "heartbeat", has_storemap |-> FALSE, storemap |-> NoStoreMap, storemap_epoch |-> 0,
   cluster_state |-> [read_only |-> FALSE, force_read_only |-> FALSE], region_cmds |-> {}]

StoreHeartbeat ==
  /\ c_pc = "idle"
  /\ \E req \in StoreHeartbeatRequests :
       /\ req.has_store /\ c_storemap.epoch >= MaxEpoch => UpdateStoreMap(c_storemap, req.store) = c_storemap
       /\ IF ~c_leader THEN Returned(req, RedirectResponse(NoCoordResponse))
          ELSE IF ~req.has_store
          THEN Returned(req, SetError(NoCoordResponse, "EILLEGAL_PARAMTETERS"))
          ELSE IF ValidateStore(c_storemap, req.store) # 0
          THEN Returned(req, NoCoordResponse)
          ELSE Submitted(req, "EREQUEST_FULL")

DoStoreHeartbeat ==
  /\ c_pc = "queued" /\ c_req.method = "StoreHeartbeat"
  /\ \E write_ok \in BOOLEAN :
       LET new_map == UpdateStoreMap(c_storemap, c_req.store)
           changed == new_map # c_storemap \/ c_req.has_store_metrics
           read_only == c_cluster.read_only \/ (c_req.has_store_metrics /\ c_req.is_ready_only)
           state == [HeartbeatBody EXCEPT
                       !.cluster_state = ClusterState(read_only, c_cluster.force_read_only)]
           resp == [c_resp EXCEPT !.body = state]
       IN IF ~c_leader
          THEN Executed(RedirectResponse(c_resp)) /\ UNCHANGED <<c_storemap, c_cluster>>
          ELSE IF ValidateStore(c_storemap, c_req.store) # 0
          THEN Executed(SetError(c_resp, "EILLEGAL_PARAMTETERS"))
               /\ UNCHANGED <<c_storemap, c_cluster>>
          ELSE IF changed /\ ~write_ok
          THEN /\ Executed(SetError(resp, "EINTERNAL"))
               /\ c_cluster' = [c_cluster EXCEPT !.read_only = read_only]
               /\ UNCHANGED c_storemap
          ELSE /\ Executed([resp EXCEPT !.body.has_storemap = TRUE,
                                        !.body.storemap = GetStoreMap(new_map),
                                        !.body.storemap_epoch = new_map.epoch])
               /\ c_cluster' = [c_cluster EXCEPT !.read_only = read_only]
               /\ c_storemap' = new_map
  /\ UNCHANGED <<c_job, c_gc, c_store_ops>>

\* CreateStore registers a store
CreateStore ==
  /\ c_pc = "idle" /\ c_leader
  /\ c_storemap.epoch < MaxEpoch
  /\ \E id \in StoreIds :
       /\ c_storemap.stores[id] = Absent
       /\ c_storemap' = UpdateStoreMap(c_storemap, [id |-> id, location |-> "l1"])
  /\ UNCHANGED <<coordRpcVars, c_leader, c_busy, c_job, c_gc, c_store_ops, c_cluster, notCoord>>

\* a job's task puts a region cmd on the list of a store
AddStoreOperation ==
  /\ c_pc = "idle" /\ c_leader
  /\ \E id \in StoreIds, cmd \in JobTasks[1] :
       /\ c_storemap.stores[id] # Absent
       /\ c_store_ops[id] = {}
       /\ c_store_ops' = [c_store_ops EXCEPT ![id] = {cmd}]
  /\ UNCHANGED <<coordRpcVars, c_leader, c_busy, c_job, c_gc, c_storemap, c_cluster, notCoord>>

\* ConfigCoordinator sets and clears force_read_only
ConfigCoordinator ==
  /\ c_pc = "idle" /\ c_leader
  /\ c_cluster' = [c_cluster EXCEPT !.force_read_only = ~c_cluster.force_read_only]
  /\ UNCHANGED <<coordRpcVars, c_leader, c_busy, c_job, c_gc, c_storemap, c_store_ops, notCoord>>

\* the coordinator turns to the next RPC
NextCoordRpc ==
  /\ c_pc = "finished"
  /\ c_pc' = "idle"
  /\ c_req' = NoCoordRpc
  /\ c_resp' = NoCoordResponse
  /\ c_runs' = 0
  /\ c_task' = "none"
  /\ UNCHANGED <<coordStateVars, notCoord>>

\* the raft group of the coordinators elects another leader
LeaderChange ==
  /\ c_leader' = ~c_leader
  /\ UNCHANGED <<coordRpcVars, c_busy, c_job, c_gc, c_storemap, c_store_ops, c_cluster, notCoord>>

\* other requests come into the worker set and leave it
CoordWorkerSetLoad ==
  /\ c_pc = "idle"
  /\ \E n \in 0..MaxPending :
       /\ n \in {c_busy - 1, c_busy + 1}
       /\ c_busy' = n
  /\ UNCHANGED <<coordRpcVars, c_leader, c_job, c_gc, c_storemap, c_store_ops, c_cluster, notCoord>>

InitCoord ==
  /\ c_pc = "idle"
  /\ c_req = NoCoordRpc
  /\ c_resp = NoCoordResponse
  /\ c_runs = 0
  /\ c_task = "none"
  /\ c_leader = TRUE
  /\ c_busy = 0
  /\ c_job = NewJob
  /\ c_gc = [safe_point |-> 0, resolve_lock_safe_point |-> 0, gc_stop |-> FALSE]
  /\ c_storemap = [epoch |-> 1, stores |-> [id \in StoreIds |-> Absent]]
  /\ c_store_ops = [id \in StoreIds |-> {}]
  /\ c_cluster = [read_only |-> FALSE, force_read_only |-> FALSE]

(***************************************************************************)
(* Properties of the engine.                                               *)
(***************************************************************************)
\* the ranges of the range delete in flight
ReqRanges ==
  IF e_req.op = "KvDeleteRange" THEN <<[cf |-> e_req.cf, range |-> e_req.range]>>
  ELSE e_req.ranges

InRange(cf, k, ranges) ==
  \E i \in 1..Len(ranges) :
    /\ ranges[i].cf = cf
    /\ StrLeq(ranges[i].range.start_key, k)
    /\ StrLess(k, ranges[i].range.end_key)

\* pre with every key of every listed range removed
RangesDeleted(pre, ranges) ==
  [rk \in RawKeys |->
     IF \E cf \in CfNames, k \in UserKeys : rk = EncodeKey(cf, k) /\ InRange(cf, k, ranges)
     THEN NoValue ELSE pre[rk]]

\* C1: BatchDeleteRange and DeleteRange are atomic: from the call on, the
\* committed content is either what it was when the call was made or that
\* with every key of every listed range removed, never something in between.
C1_RangeDeleteAtomic ==
  (e_req.op \in {"KvDeleteRange", "KvBatchDeleteRange"} /\ e_pc \in {"running", "done"})
    => db \in {e_pre, RangesDeleted(e_pre, ReqRanges)}

\* the values the batch puts to the raw key rk
PutTo(rk, puts) ==
  {v \in Values : \E i \in 1..Len(puts) : \E j \in 1..Len(puts[i].list) :
     puts[i].list[j].value = v /\ EncodeKey(puts[i].cf, puts[i].list[j].key) = rk}

DeletedBy(rk, deletes) ==
  \E i \in 1..Len(deletes) : \E j \in 1..Len(deletes[i].list) :
    rk = EncodeKey(deletes[i].cf, deletes[i].list[j])

\* pre with every put and every delete of the batch applied
BatchApplied(pre, puts, deletes) ==
  [rk \in RawKeys |->
     IF DeletedBy(rk, deletes) THEN NoValue
     ELSE IF PutTo(rk, puts) # {} THEN CHOOSE v \in PutTo(rk, puts) : TRUE
     ELSE pre[rk]]

\* C2: BatchPutAndDelete is atomic across column families: when the call has
\* ended, every listed put and delete of every column family is applied and
\* the status is OK, or nothing is applied and the status is an error.
C2_BatchPutAndDeleteAtomic ==
  (e_pc = "done" /\ e_req.op = "KvBatchPutAndDelete")
    => IF e_resp.status = "OK"
       THEN db = BatchApplied(e_pre, e_req.puts, e_req.deletes)
       ELSE db = e_pre

\* a batch that put into one column family and deleted a present key of another
C2_Witness ==
  /\ e_pc = "done" /\ e_req.op = "KvBatchPutAndDelete" /\ e_resp.status = "OK"
  /\ \E k1 \in UserKeys, k2 \in UserKeys :
       /\ e_req.puts = <<[cf |-> "default", list |-> <<[key |-> k1, value |-> "v2"]>>]>>
       /\ e_req.deletes = <<[cf |-> "meta", list |-> <<k2>>]>>
       /\ e_pre[EncodeKey("default", k1)] # "v2"
       /\ e_pre[EncodeKey("meta", k2)] # NoValue
       /\ db[EncodeKey("default", k1)] = "v2"
       /\ db[EncodeKey("meta", k2)] = NoValue

\* what a put or a batch delete leaves when it is applied
WriteApplied(pre, req) ==
  IF req.op = "KvPut" THEN [pre EXCEPT ![EncodeKey(req.cf, req.key)] = req.value]
  ELSE [rk \in RawKeys |->
          IF \E i \in 1..Len(req.keys) : rk = EncodeKey(req.cf, req.keys[i])
          THEN NoValue ELSE pre[rk]]

\* C4: a write that meets a deadlock is aborted and retried, at most
\* bdb_max_retries times; a write that gets through after its retries does
\* what it does without them, and a write that deadlocks more often than
\* that ends with EBDB_DEADLOCK and changes nothing.
C4_DeadlockRetry ==
  (e_pc = "done" /\ e_req.op \in {"KvPut", "KvBatchDelete"} /\ e_resp.status # "EKEY_EMPTY")
    => /\ e_resp.retry_count <= bdb_max_retries
       /\ e_resp.deadlocks <= bdb_max_retries
            => (e_resp.retry_count = e_resp.deadlocks /\ e_resp.status # "EBDB_DEADLOCK")
       /\ e_resp.deadlocks > bdb_max_retries
            => (e_resp.status = "EBDB_DEADLOCK" /\ e_resp.retry_count = bdb_max_retries)
       /\ db = IF e_resp.status = "OK" THEN WriteApplied(e_pre, e_req) ELSE e_pre

\* a put that deadlocked as often as may be retried and then went through
C4_Witness ==
  /\ e_pc = "done" /\ e_req.op = "KvPut"
  /\ e_resp.deadlocks = bdb_max_retries /\ e_resp.retry_count = bdb_max_retries
  /\ e_resp.status = "OK" /\ db # e_pre

\* the entries of the range [start_key, end_key) of cf in a view, in key order
RECURSIVE RangeOf(_, _, _, _)
RangeOf(view, cf, range, from) ==
  IF from > MaxKey THEN <<>>
  ELSE (IF /\ StrLeq(range.start_key, <<from>>) /\ StrLess(<<from>>, range.end_key)
           /\ view[EncodeKey(cf, <<from>>)] # NoValue
        THEN <<[key |-> <<from>>, value |-> view[EncodeKey(cf, <<from>>)]]>>
        ELSE <<>>) \o RangeOf(view, cf, range, from + 1)

\* C5: a read through a snapshot, a point get or an iterator made from it,
\* returns the content committed when the snapshot was taken, whatever was
\* written since.
C5_SnapshotReads ==
  /\ (r_resp.op = "KvGet" /\ r_resp.by_snapshot /\ r_resp.status = "OK")
       => r_resp.value = snapshot.view[EncodeKey(r_resp.cf, r_resp.key)]
  /\ (r_resp.op = "KvGet" /\ r_resp.by_snapshot /\ r_resp.status = "EKEY_NOT_FOUND")
       => snapshot.view[EncodeKey(r_resp.cf, r_resp.key)] = NoValue
  /\ (r_resp.op = "KvScan" /\ r_resp.by_snapshot /\ r_resp.status = "OK"
        /\ r_resp.iter_status = "OK")
       => r_resp.kvs = IF StrLess(r_resp.range.start_key, r_resp.range.end_key)
                       THEN RangeOf(snapshot.view, r_resp.cf, r_resp.range, 1)
                       ELSE <<>>

\* a key read through the snapshot after it was deleted from the tree
C5_Witness ==
  /\ r_resp.op = "KvGet" /\ r_resp.by_snapshot /\ r_resp.status = "OK"
  /\ db[EncodeKey(r_resp.cf, r_resp.key)] = NoValue

(***************************************************************************)
(* The specifications: each moves one component.                           *)
(***************************************************************************)
\* C12: after any sequence of writes, a Get of a key that succeeds returns
\* the value of the latest successful Put of the key when no successful
\* Delete of the key followed it, and the key is NOT_FOUND when the latest
\* successful write to it is a Delete (or there was none).
C12_GetReturnsLatestWrite ==
  (r_resp # NoRead /\ r_resp.op = "KvGet" /\ r_resp.key # EmptyKey
     /\ r_resp.status \in {"OK", "EKEY_NOT_FOUND"}) =>
    LET last == k_last[EncodeKey(r_resp.cf, r_resp.key)] IN
      /\ last \in Values => r_resp.status = "OK" /\ r_resp.value = last
      /\ last \in {Deleted, Never} => r_resp.status = "EKEY_NOT_FOUND"

C12_Witness ==
  /\ r_resp # NoRead /\ r_resp.op = "KvGet"
  /\ r_resp.status = "EKEY_NOT_FOUND"
  /\ k_last[EncodeKey(r_resp.cf, r_resp.key)] = Deleted
  /\ \E k \in UserKeys : k_last[EncodeKey("meta", k)] = "v2" /\ db[EncodeKey("meta", k)] = "v2"

ScanOf(start_is_end) ==
  /\ r_resp # NoRead /\ r_resp.op = "KvScan"
  /\ r_resp.range.start_key # EmptyKey /\ r_resp.range.end_key # EmptyKey
  /\ IF start_is_end THEN r_resp.range.start_key = r_resp.range.end_key
     ELSE StrLess(r_resp.range.end_key, r_resp.range.start_key)

C3_ClosureRunsOnce ==
  s_pc = "finished" => s_runs = 1 /\ s_resp.time_info

\* C6: while the cluster is read-only every write request is rejected, with
\* the cluster-read-only error when nothing else is wrong with the request,
\* and a read request that is otherwise in order is served.
C6_ReadOnlyRejectsWrites ==
  s_pc = "finished" /\ s_read_only =>
    /\ s_req.method \in WriteMethods =>
         /\ ~s_handed
         /\ s_req.defects = {} /\ ~s_req.raft_exceed /\ ~s_req.bg_exceed
              => s_resp.errcode = "ECLUSTER_READ_ONLY"
    /\ s_req.method \notin WriteMethods /\ s_req.defects = {} /\ s_runs = 1
         /\ s_resp.errcode # "EREQUEST_FULL" => s_handed

IndexWrites == {"DocumentAdd", "DocumentDelete"}

\* C24: a request that hands work to the index while the count of its pending
\* background tasks is exceeded is not accepted: it never reaches the worker
\* set or the storage, and is answered with REQUEST_FULL
C24_BackgroundPendingChecked ==
  (s_pc \in {"queued", "finished"} /\ s_req.method \in IndexWrites /\ s_req.bg_exceed) =>
    /\ s_pc = "finished"
    /\ s_resp.errcode = "EREQUEST_FULL"
    /\ ~s_handed

(***************************************************************************)
(* The MetaStore of the coordinator (src/coordinator/                      *)
(* coordinator_control_kv.cc): kv_index_map_ and kv_rev_map_, the leases'  *)
(* key-sets, the one-time watches, and the MetaIncrements that the         *)
(* replicated log has still to apply.  Keys and values are byte strings.   *)
(***************************************************************************)
Revision(main, sub) == [main |-> main, sub |-> sub]
\* a RevisionInternal as protobuf makes it: main 0, sub 0
NoRevision == Revision(0, 0)

\* the 17 bytes main(8) '_' sub(8), each long held as one element
RevisionToString(revision) == <<revision.main, 95, revision.sub>>

MetaKeys == UserKeys
Revisions == {Revision(m, s) : m \in 0..MaxRevision, s \in 0..(Cardinality(MetaKeys) - 1)}
RevisionStrings == {RevisionToString(r) : r \in Revisions}

\* a key one byte longer than FLAGS_max_kv_key_size
LongKey == [i \in 1..(max_kv_key_size + 1) |-> 1]

EmptyValue == ""
MetaValues == {"v", "w"}

LeaseIds == {1, 2}

\* a generation whose version is not counted from 1
GenerationFromZero(op_revision) ==
  [has_create_revision |-> TRUE, create_revision |-> op_revision, verison |-> 0,
   revisions |-> <<op_revision>>]

\* a generation of a KvIndexInternal; the null generation stands for a delete
Generation(op_revision) ==
  [has_create_revision |-> TRUE, create_revision |-> op_revision, verison |-> 1,
   revisions |-> <<op_revision>>]
NullGeneration ==
  [has_create_revision |-> FALSE, create_revision |-> NoRevision, verison |-> 0,
   revisions |-> <<>>]

\* kv_index_map_ has no entry for the key
NoKvIndex == [found |-> FALSE, mod_revision |-> NoRevision, generations |-> <<>>]
\* kv_rev_map_ has no entry for the revision: a KvRevInternal as protobuf makes it
NoKvRev ==
  [found |-> FALSE, id |-> <<>>, value |-> EmptyValue, create_revision |-> NoRevision,
   mod_revision |-> NoRevision, version |-> 0, lease |-> 0, is_deleted |-> FALSE]
\* a version::Kv as protobuf makes it
NoKv ==
  [create_revision |-> 0, mod_revision |-> 0, version |-> 0, lease |-> 0,
   key |-> <<>>, value |-> EmptyValue]

GetRawKvIndex(kv_index_map, key) ==
  IF key \in DOMAIN kv_index_map THEN kv_index_map[key] ELSE NoKvIndex

GetRawKvRev(kv_rev_map, revision) ==
  IF RevisionToString(revision) \in DOMAIN kv_rev_map
  THEN kv_rev_map[RevisionToString(revision)] ELSE NoKvRev

\* std::to_string of a char: the char is promoted to int and written in decimal
\* digits; for the chars used here that is one digit
StdToString(char) == <<48 + char>>

\* the predicate of RangeRawKvIndex on one entry of kv_index_map_
RangeFilter(key, range_end, id, version_kv) ==
  LET generation_count == Len(version_kv.generations) IN
  IF generation_count = 0 THEN FALSE
  ELSE LET latest_generation == version_kv.generations[generation_count] IN
    IF ~latest_generation.has_create_revision \/ Len(latest_generation.revisions) = 0
    THEN FALSE
    ELSE IF range_end = <<>> THEN key = id
    ELSE IF range_end = StdToString(0) THEN StrLeq(key, id)
    ELSE StrLeq(key, id) /\ StrLess(id, range_end)

\* the keys of a set in their order
RECURSIVE InOrder(_)
InOrder(S) == IF S = {} THEN <<>> ELSE <<MinKey(S)>> \o InOrder(S \ {MinKey(S)})

\* the ids of the entries that GetAllValues keeps, in the order of the map
RangeRawKvIndex(kv_index_map, key, range_end) ==
  InOrder({id \in DOMAIN kv_index_map :
             kv_index_map[id].found /\ RangeFilter(key, range_end, id, kv_index_map[id])})

\* the loop of KvRange over the entries found
RECURSIVE KvRangeRows(_, _, _, _, _, _, _)
KvRangeRows(kv_index_map, kv_rev_map, ids, limit, keys_only, limit_count, kv) ==
  IF ids = <<>> THEN [kv |-> kv, limit_count |-> limit_count]
  ELSE LET kv_index_value == kv_index_map[Head(ids)]
           generation_count == Len(kv_index_value.generations)
           rest == Tail(ids)
       IN
    IF generation_count = 0
    THEN KvRangeRows(kv_index_map, kv_rev_map, rest, limit, keys_only, limit_count, kv)
    ELSE IF \/ ~kv_index_value.generations[generation_count].has_create_revision
            \/ Len(kv_index_value.generations[generation_count].revisions) = 0
    THEN KvRangeRows(kv_index_map, kv_rev_map, rest, limit, keys_only, limit_count, kv)
    ELSE IF limit # 0 /\ limit_count + 1 > limit
    THEN KvRangeRows(kv_index_map, kv_rev_map, rest, limit, keys_only, limit_count + 1, kv)
    ELSE LET kv_rev == GetRawKvRev(kv_rev_map, kv_index_value.mod_revision) IN
      IF ~kv_rev.found
      THEN KvRangeRows(kv_index_map, kv_rev_map, rest, limit, keys_only, limit_count + 1, kv)
      ELSE KvRangeRows(kv_index_map, kv_rev_map, rest, limit, keys_only, limit_count + 1,
             Append(kv, [create_revision |-> kv_rev.create_revision.main,
                         mod_revision |-> kv_rev.mod_revision.main,
                         version |-> kv_rev.version,
                         lease |-> kv_rev.lease,
                         key |-> kv_rev.id,
                         value |-> IF keys_only THEN EmptyValue ELSE kv_rev.value]))

\* limit 0 is no limit (INT64_MAX)
KvRange(kv_index_map, kv_rev_map, key, range_end, limit, keys_only, count_only) ==
  LET ids == IF range_end = <<>>
             THEN (IF GetRawKvIndex(kv_index_map, key).found THEN <<key>> ELSE <<>>)
             ELSE RangeRawKvIndex(kv_index_map, key, range_end)
      rows == KvRangeRows(kv_index_map, kv_rev_map, ids, limit, keys_only, 0, <<>>)
  IN IF count_only THEN [status |-> "OK", kv |-> <<>>, total_count_in_range |-> 0]
     ELSE [status |-> "OK", kv |-> rows.kv, total_count_in_range |-> rows.limit_count]

(***************************************************************************)
(* The leases' side of the MetaStore: a lease holds the set of the keys    *)
(* bound to it.                                                            *)
(***************************************************************************)
NoLease == [granted |-> FALSE, keys |-> {}]

LeaseQuery(lease_map, lease_id) ==
  IF lease_id \in DOMAIN lease_map /\ lease_map[lease_id].granted THEN "OK"
  ELSE "ELEASE_NOT_EXISTS_OR_EXPIRED"

LeaseAddKeys(lease_map, lease_id, keys) ==
  IF LeaseQuery(lease_map, lease_id) # "OK"
  THEN [status |-> "ELEASE_NOT_EXISTS_OR_EXPIRED", lease_map |-> lease_map]
  ELSE [status |-> "OK",
        lease_map |-> [lease_map EXCEPT ![lease_id].keys = @ \cup keys]]

\* keys_to_remove_lease: lease id -> the keys to take out of its key-set
LeaseRemoveMultiLeaseKeys(lease_map, keys_to_remove_lease) ==
  [status |-> "OK",
   lease_map |-> [id \in DOMAIN lease_map |->
                    IF id \in DOMAIN keys_to_remove_lease /\ lease_map[id].granted
                    THEN [lease_map[id] EXCEPT !.keys = @ \ keys_to_remove_lease[id]]
                    ELSE lease_map[id]]]

(***************************************************************************)
(* KvPut: the checks of a put and the kv_index delta it adds to the        *)
(* MetaIncrement.  The answer holds the status, the leases as the call     *)
(* leaves them, the deltas added, sub_revision and prev_kv.                *)
(***************************************************************************)
KvPutAnswer(status, lease_map, kv_indexes, sub_revision, prev_kv) ==
  [status |-> status, lease_map |-> lease_map, kv_indexes |-> kv_indexes,
   sub_revision |-> sub_revision, prev_kv |-> prev_kv]

\* the delta of a put: ignore_value is set when ignore_lease is not, value when
\* igore_value is not; a field that is not set reads false, or the empty string
PutDelta(key, value, main_revision, sub_revision, lease_grant_id, igore_value, ignore_lease) ==
  [id |-> key, event_type |-> "KV_INDEX_EVENT_TYPE_PUT",
   op_revision |-> Revision(main_revision, sub_revision),
   ignore_lease |-> ignore_lease, lease_id |-> lease_grant_id,
   ignore_value |-> IF ~ignore_lease THEN igore_value ELSE FALSE,
   value |-> IF ~igore_value THEN value ELSE EmptyValue]

CoordinatorKvPut(kv_index_map, kv_rev_map, lease_map, key, value, lease_id, need_prev_kv, igore_value, ignore_lease, main_revision, sub_revision) ==
  LET kvs_temp == IF ignore_lease
                  THEN KvRange(kv_index_map, kv_rev_map, key, <<>>, 1, FALSE, FALSE).kv
                  ELSE <<>>
      lease_grant_id == IF ignore_lease /\ kvs_temp # <<>> THEN kvs_temp[1].lease
                        ELSE lease_id
      added == IF lease_grant_id # 0 THEN LeaseAddKeys(lease_map, lease_grant_id, {key})
               ELSE [status |-> "OK", lease_map |-> lease_map]
      kvs_prev == IF need_prev_kv /\ kvs_temp = <<>>
                  THEN KvRange(kv_index_map, kv_rev_map, key, <<>>, 1, FALSE, FALSE).kv
                  ELSE kvs_temp
      prev_kv == IF need_prev_kv /\ kvs_prev # <<>> THEN kvs_prev[1] ELSE NoKv
  IN
  IF ~ignore_lease /\ lease_id # 0 /\ LeaseQuery(lease_map, lease_id) # "OK"
  THEN KvPutAnswer(LeaseQuery(lease_map, lease_id), lease_map, <<>>, sub_revision, NoKv)
  ELSE IF ignore_lease /\ kvs_temp = <<>>
  THEN KvPutAnswer("EINVAL", lease_map, <<>>, sub_revision, NoKv)
  ELSE IF added.status # "OK"
  THEN KvPutAnswer(added.status, lease_map, <<>>, sub_revision, NoKv)
  ELSE IF key = <<>>
  THEN KvPutAnswer("EINVAL", added.lease_map, <<>>, sub_revision, NoKv)
  ELSE IF ~igore_value /\ value = EmptyValue
  THEN KvPutAnswer("EINVAL", added.lease_map, <<>>, sub_revision, NoKv)
  ELSE IF Len(key) > max_kv_key_size
  THEN KvPutAnswer("EINVAL", added.lease_map, <<>>, sub_revision, NoKv)
  ELSE KvPutAnswer("OK", added.lease_map,
                   <<PutDelta(key, value, main_revision, sub_revision, lease_grant_id,
                              igore_value, ignore_lease)>>,
                   sub_revision + 1, prev_kv)

(***************************************************************************)
(* KvPutApply and KvDeleteApply, run by the state machine on a delta.  ms  *)
(* holds kv_index_map, kv_rev_map, the one-time watches and the events     *)
(* sent to the watchers.                                                   *)
(***************************************************************************)
\* TriggerOneWatch: every watcher of the key is sent the event and the key's
\* entry is erased from one_time_watch_map_
TriggerOneWatch(ms, key, event_type, new_kv, prev_kv) ==
  IF key \notin ms.watch THEN ms
  ELSE [ms EXCEPT !.watch = @ \ {key},
                  !.events[key] = [count |-> @.count + 1, type |-> event_type,
                                   mod_revision |-> new_kv.mod_revision,
                                   value |-> new_kv.value, prev_kv |-> prev_kv]]

\* the writes of an apply function that ends without the watch
WriteOnly(ms, key, op_revision, kv_index, kv_rev, kv_rev_last, event_type, prev_set, new_create_revision, new_version) ==
  [ms EXCEPT !.kv_index_map[key] = kv_index,
             !.kv_rev_map[RevisionToString(op_revision)] = kv_rev]

\* PutRawKvIndex, PutRawKvRev and the watch, as both apply functions end
WriteAndTrigger(ms, key, op_revision, kv_index, kv_rev, kv_rev_last, event_type, prev_set, new_create_revision, new_version) ==
  LET written == [ms EXCEPT !.kv_index_map[key] = kv_index,
                            !.kv_rev_map[RevisionToString(op_revision)] = kv_rev]
      prev_kv == IF prev_set.create_revision > 0
                 THEN [prev_set EXCEPT !.lease = kv_rev_last.lease, !.key = key,
                                       !.value = kv_rev_last.value]
                 ELSE prev_set
      new_kv == [create_revision |-> new_create_revision.main,
                 mod_revision |-> op_revision.main, version |-> new_version,
                 lease |-> kv_rev.lease, key |-> key, value |-> kv_rev.value]
  IN IF ms.watch # {} THEN TriggerOneWatch(written, key, event_type, new_kv, prev_kv)
     ELSE written

KvPutApply(ms, key, op_revision, ignore_lease, lease_id, ignore_value, value) ==
  LET old == GetRawKvIndex(ms.kv_index_map, key)
      n == Len(old.generations)
      live == old.found /\ n > 0 /\ old.generations[n].has_create_revision
      generations ==
        IF ~old.found \/ n = 0 THEN Append(old.generations, Generation(op_revision))
        ELSE IF live
        THEN [old.generations EXCEPT ![n].revisions = Append(@, op_revision),
                                     ![n].verison = @ + 1]
        ELSE [old.generations EXCEPT ![n] = Generation(op_revision)]
      kv_index == [found |-> TRUE, mod_revision |-> op_revision, generations |-> generations]
      last_mod_revision == IF old.found THEN old.mod_revision ELSE NoRevision
      latest_generation == generations[Len(generations)]
      new_create_revision ==
        IF ~old.found \/ n = 0 THEN op_revision ELSE latest_generation.create_revision
      new_version == IF ~old.found \/ n = 0 THEN 1 ELSE latest_generation.verison
      prev_set == IF live
                  THEN [NoKv EXCEPT !.create_revision = latest_generation.create_revision.main,
                                    !.mod_revision = old.mod_revision.main,
                                    !.version = latest_generation.verison]
                  ELSE NoKv
      kv_rev_last == GetRawKvRev(ms.kv_rev_map, last_mod_revision)
      kv_rev == [found |-> TRUE, id |-> key,
                 value |-> IF ~ignore_value THEN value ELSE kv_rev_last.value,
                 create_revision |-> new_create_revision,
                 mod_revision |-> op_revision,
                 version |-> new_version,
                 lease |-> IF ignore_lease THEN kv_rev_last.lease ELSE lease_id,
                 is_deleted |-> FALSE]
  IN WriteAndTrigger(ms, key, op_revision, kv_index, kv_rev, kv_rev_last, "PUT",
                     prev_set, new_create_revision, new_version)

\* a DELETE that writes the revision into the latest generation and starts no
\* generation after it
KvDeleteApplyInPlace(ms, key, op_revision) ==
  LET old == GetRawKvIndex(ms.kv_index_map, key)
      n == Len(old.generations)
      generations == IF n = 0 THEN old.generations
                     ELSE [old.generations EXCEPT ![n].revisions = Append(@, op_revision)]
      kv_index == [found |-> TRUE, mod_revision |-> op_revision, generations |-> generations]
      kv_rev == [found |-> TRUE, id |-> key, value |-> EmptyValue,
                 create_revision |-> op_revision, mod_revision |-> op_revision,
                 version |-> 1, lease |-> 0, is_deleted |-> TRUE]
  IN IF ~old.found THEN ms
     ELSE WriteOnly(ms, key, op_revision, kv_index, kv_rev, NoKvRev, "DELETE", NoKv,
                    op_revision, 1)

KvDeleteApply(ms, key, op_revision) ==
  LET old == GetRawKvIndex(ms.kv_index_map, key)
      n == Len(old.generations)
      live == n > 0 /\ old.generations[n].has_create_revision
      generations ==
        IF n = 0 THEN Append(old.generations, NullGeneration)
        ELSE IF live
        THEN Append([old.generations EXCEPT ![n].revisions = Append(@, op_revision),
                                            ![n].verison = @ + 1],
                    NullGeneration)
        ELSE old.generations
      kv_index == [found |-> TRUE, mod_revision |-> op_revision, generations |-> generations]
      latest_generation == IF n = 0 THEN NullGeneration ELSE generations[n]
      new_create_revision == IF n = 0 THEN op_revision ELSE latest_generation.create_revision
      new_version == IF n = 0 THEN 1 ELSE latest_generation.verison
      prev_set == IF live
                  THEN [NoKv EXCEPT !.create_revision = latest_generation.create_revision.main,
                                    !.mod_revision = old.mod_revision.main,
                                    !.version = latest_generation.verison]
                  ELSE NoKv
      kv_rev_last == GetRawKvRev(ms.kv_rev_map, old.mod_revision)
      kv_rev == [found |-> TRUE, id |-> key, value |-> EmptyValue,
                 create_revision |-> new_create_revision,
                 mod_revision |-> op_revision,
                 version |-> new_version, lease |-> 0, is_deleted |-> TRUE]
  IN IF ~old.found THEN ms
     ELSE WriteAndTrigger(ms, key, op_revision, kv_index, kv_rev, kv_rev_last, "DELETE",
                          prev_set, new_create_revision, new_version)

(***************************************************************************)
(* KvDeleteRange: a DELETE delta for every key the range holds, and the    *)
(* keys taken out of their leases' key-sets.                               *)
(***************************************************************************)
InsertOrAssign(map, k, v) == [x \in DOMAIN map \cup {k} |-> IF x = k THEN v ELSE map[x]]

DeleteDelta(key, main_revision, sub_revision) ==
  [id |-> key, event_type |-> "KV_INDEX_EVENT_TYPE_DELETE",
   op_revision |-> Revision(main_revision, sub_revision),
   ignore_lease |-> FALSE, lease_id |-> 0, ignore_value |-> FALSE, value |-> EmptyValue]

\* the loop over kvs_to_delete
RECURSIVE DoKvDelete(_, _, _, _, _)
DoKvDelete(kvs_to_delete, main_revision, sub_revision, kv_indexes, keys_to_remove_lease) ==
  IF kvs_to_delete = <<>>
  THEN [kv_indexes |-> kv_indexes, sub_revision |-> sub_revision,
        keys_to_remove_lease |-> keys_to_remove_lease]
  ELSE LET kv_to_delete == Head(kvs_to_delete) IN
    DoKvDelete(Tail(kvs_to_delete), main_revision, sub_revision + 1,
               Append(kv_indexes, DeleteDelta(kv_to_delete.key, main_revision, sub_revision)),
               IF kv_to_delete.lease = 0 THEN keys_to_remove_lease
               ELSE InsertOrAssign(keys_to_remove_lease, kv_to_delete.lease,
                                   {kv_to_delete.key}))

KvDeleteRange(kv_index_map, kv_rev_map, lease_map, key, range_end, need_prev_kv, main_revision, sub_revision, need_lease_remove_keys) ==
  LET got == KvRange(kv_index_map, kv_rev_map, key, range_end, 0, ~need_prev_kv, FALSE)
      done == DoKvDelete(got.kv, main_revision, sub_revision, <<>>, <<>>)
      removed == IF need_lease_remove_keys /\ DOMAIN done.keys_to_remove_lease # {}
                 THEN LeaseRemoveMultiLeaseKeys(lease_map, done.keys_to_remove_lease)
                 ELSE [status |-> "OK", lease_map |-> lease_map]
  IN [status |-> removed.status, lease_map |-> removed.lease_map,
      kv_indexes |-> done.kv_indexes, sub_revision |-> done.sub_revision,
      prev_kvs |-> IF need_prev_kv THEN got.kv ELSE <<>>]

\* the state machine applies the kv_index deltas of a MetaIncrement in their order
RECURSIVE ApplyKvIndexes(_, _)
ApplyKvIndexes(ms, kv_indexes) ==
  IF kv_indexes = <<>> THEN ms
  ELSE LET d == Head(kv_indexes) IN
    ApplyKvIndexes(
      IF d.event_type = "KV_INDEX_EVENT_TYPE_PUT"
      THEN KvPutApply(ms, d.id, d.op_revision, d.ignore_lease, d.lease_id,
                      d.ignore_value, d.value)
      ELSE KvDeleteApply(ms, d.id, d.op_revision),
      Tail(kv_indexes))

(***************************************************************************)
(* The callers of the MetaStore: one call at a time is answered, its       *)
(* MetaIncrement joins the log, and the state machine applies the log in   *)
(* its order.                                                              *)
(***************************************************************************)
NoMetaResponse == [op |-> "none"]
NoEvents ==
  [count |-> 0, type |-> "none", mod_revision |-> 0, value |-> EmptyValue, prev_kv |-> NoKv]
NoPut == [ignore_value |-> FALSE, ignore_lease |-> FALSE]

\* the MetaStore as the apply functions take it
MetaState ==
  [kv_index_map |-> m_kv_index, kv_rev_map |-> m_kv_rev, watch |-> m_watch,
   events |-> m_events]

InitMeta ==
  /\ m_kv_index = [k \in MetaKeys |-> NoKvIndex]
  /\ m_kv_rev = [s \in RevisionStrings |-> NoKvRev]
  /\ m_lease = [l \in LeaseIds |-> NoLease]
  /\ m_watch = {}
  /\ m_events = [k \in MetaKeys |-> NoEvents]
  /\ m_revision = 1
  /\ m_log = <<>>
  /\ m_resp = NoMetaResponse
  /\ m_puts = [s \in RevisionStrings |-> NoPut]

RangeEndsAsked == {<<>>, <<0>>, StdToString(0)} \cup {<<b>> : b \in 2..(MaxKey + 1)}

\* a key with a latest generation that has a create_revision
LiveKey(kv_index_map, k) ==
  /\ kv_index_map[k].found
  /\ Len(kv_index_map[k].generations) > 0
  /\ kv_index_map[k].generations[Len(kv_index_map[k].generations)].has_create_revision

\* LeaseGrant
MetaLeaseGrant ==
  /\ m_resp = NoMetaResponse
  /\ \E id \in LeaseIds :
       /\ ~m_lease[id].granted
       /\ m_lease' = [m_lease EXCEPT ![id].granted = TRUE]
  /\ UNCHANGED <<m_kv_index, m_kv_rev, m_watch, m_events, m_revision, m_log, m_resp,
                 m_puts, notMeta>>

\* the KvRange RPC
MetaKvRange ==
  /\ m_resp = NoMetaResponse
  /\ \E key \in MetaKeys, range_end \in RangeEndsAsked, limit \in {0, 1},
        keys_only \in BOOLEAN, count_only \in BOOLEAN :
       LET r == KvRange(m_kv_index, m_kv_rev, key, range_end, limit, keys_only, count_only)
       IN m_resp' = [op |-> "KvRange", key |-> key, range_end |-> range_end,
                     limit |-> limit, keys_only |-> keys_only, count_only |-> count_only,
                     status |-> r.status, kv |-> r.kv,
                     total_count_in_range |-> r.total_count_in_range,
                     live |-> {k \in MetaKeys : LiveKey(m_kv_index, k)}]
  /\ UNCHANGED <<m_kv_index, m_kv_rev, m_lease, m_watch, m_events, m_revision, m_log,
                 m_puts, notMeta>>

\* the KvPut RPC: the revision is taken, KvPut checks the request and fills the
\* MetaIncrement, which is handed to the log when the status is OK
MetaKvPut ==
  /\ m_resp = NoMetaResponse
  /\ m_revision <= MaxRevision /\ Len(m_log) < MaxLog
  /\ \E key \in MetaKeys \cup {<<>>, LongKey}, value \in MetaValues \cup {EmptyValue},
        lease_id \in {0} \cup LeaseIds,
        need_prev_kv \in BOOLEAN, igore_value \in BOOLEAN, ignore_lease \in BOOLEAN :
       LET r == CoordinatorKvPut(m_kv_index, m_kv_rev, m_lease, key, value, lease_id,
                                 need_prev_kv, igore_value, ignore_lease, m_revision, 0)
       IN /\ m_resp' = [op |-> "KvPut", key |-> key, value |-> value,
                        lease_id |-> lease_id, need_prev_kv |-> need_prev_kv,
                        ignore_value |-> igore_value, ignore_lease |-> ignore_lease,
                        status |-> r.status, prev_kv |-> r.prev_kv]
          /\ m_lease' = r.lease_map
          /\ m_log' = IF r.status = "OK" THEN Append(m_log, r.kv_indexes) ELSE m_log
          /\ m_puts' = IF r.status = "OK"
                       THEN [m_puts EXCEPT ![RevisionToString(Revision(m_revision, 0))] =
                               [ignore_value |-> igore_value, ignore_lease |-> ignore_lease]]
                       ELSE m_puts
  /\ m_revision' = m_revision + 1
  /\ UNCHANGED <<m_kv_index, m_kv_rev, m_watch, m_events, notMeta>>

\* the KvDeleteRange RPC
MetaKvDeleteRange ==
  /\ m_resp = NoMetaResponse
  /\ m_revision <= MaxRevision /\ Len(m_log) < MaxLog
  /\ \E key \in MetaKeys, range_end \in {<<>>, <<0>>, StdToString(0), <<MaxKey + 1>>},
        need_prev_kv \in BOOLEAN, need_lease_remove_keys \in BOOLEAN :
       LET r == KvDeleteRange(m_kv_index, m_kv_rev, m_lease, key, range_end, need_prev_kv,
                              m_revision, 0, need_lease_remove_keys)
           was == KvRange(m_kv_index, m_kv_rev, key, range_end, 0, FALSE, FALSE).kv
       IN /\ m_resp' = [op |-> "KvDeleteRange", key |-> key, range_end |-> range_end,
                        need_prev_kv |-> need_prev_kv,
                        need_lease_remove_keys |-> need_lease_remove_keys,
                        status |-> r.status, main_revision |-> m_revision,
                        deleted |-> [i \in 1..Len(was) |->
                                       [key |-> was[i].key, lease |-> was[i].lease]]]
          /\ m_lease' = r.lease_map
          /\ m_log' = IF r.status = "OK" /\ r.kv_indexes # <<>>
                      THEN Append(m_log, r.kv_indexes) ELSE m_log
  /\ m_revision' = m_revision + 1
  /\ UNCHANGED <<m_kv_index, m_kv_rev, m_watch, m_events, m_puts, notMeta>>

\* OneTimeWatch: a watcher waits for the next event of a key
MetaOneTimeWatch ==
  /\ m_resp = NoMetaResponse
  /\ \E key \in MetaKeys :
       /\ key \notin m_watch
       /\ m_watch' = m_watch \cup {key}
  /\ UNCHANGED <<m_kv_index, m_kv_rev, m_lease, m_events, m_revision, m_log, m_resp,
                 m_puts, notMeta>>

\* the state machine applies the MetaIncrement at the head of the log
MetaApply ==
  /\ m_log # <<>>
  /\ LET ms == ApplyKvIndexes(MetaState, Head(m_log))
     IN /\ m_kv_index' = ms.kv_index_map
        /\ m_kv_rev' = ms.kv_rev_map
        /\ m_watch' = ms.watch
        /\ m_events' = ms.events
  /\ m_log' = Tail(m_log)
  /\ UNCHANGED <<m_lease, m_revision, m_resp, m_puts, notMeta>>

\* the caller has its answer
MetaReturn ==
  /\ m_resp # NoMetaResponse
  /\ m_resp' = NoMetaResponse
  /\ UNCHANGED <<m_kv_index, m_kv_rev, m_lease, m_watch, m_events, m_revision, m_log,
                 m_puts, notMeta>>

\* KvCompactApply: the function logs the call and returns OK
KvCompactApply(ms, key, op_revision) == ms

\* the state machine compacts every key of kv_index_map_ at the revision
RECURSIVE ApplyKvCompact(_, _, _)
ApplyKvCompact(ms, keys, op_revision) ==
  IF keys = <<>> THEN ms
  ELSE ApplyKvCompact(KvCompactApply(ms, Head(keys), op_revision), Tail(keys), op_revision)

\* Compact(rev), applied when the log is empty
MetaKvCompact ==
  /\ m_resp = NoMetaResponse
  /\ m_log = <<>>
  /\ \E rev \in 1..MaxRevision :
       LET ms == ApplyKvCompact(MetaState, InOrder(MetaKeys), Revision(rev, 0))
       IN /\ m_kv_index' = ms.kv_index_map
          /\ m_kv_rev' = ms.kv_rev_map
          /\ m_watch' = ms.watch
          /\ m_events' = ms.events
          /\ m_resp' = [op |-> "KvCompact", revision |-> rev, status |-> "OK"]
  /\ UNCHANGED <<m_lease, m_revision, m_log, m_puts, notMeta>>

(***************************************************************************)
(* DingoSafeMap (src/common/safe_map.h): a FlatMap behind a doubly         *)
(* buffered wrapper.  A read takes the foreground copy, which can fail; a  *)
(* modification runs an inner function on the map and reports what the     *)
(* inner function returned.                                                *)
(***************************************************************************)
SafeMapKeys == 1..MaxKey
\* the values are messages; ByteSizeLong is the number of their bytes
SafeMapValues == {<<1>>, <<1, 2>>}
ByteSizeLong(value) == Len(value)

\* a T_VALUE as its default constructor makes it
DefaultValue == <<>>

EmptyFlatMap == [k \in {} |-> DefaultValue]
FlatMaps == UNION {[D -> SafeMapValues] : D \in SUBSET SafeMapKeys}

\* FlatMap::seek: the address of the value, or nullptr
FlatMapSeek(map, key) == IF key \in DOMAIN map THEN [ptr |-> TRUE, value |-> map[key]]
                  ELSE [ptr |-> FALSE, value |-> DefaultValue]

\* FlatMap::insert writes the value of the key, new or not
FlatMapInsert(map, key, value) ==
  [k \in DOMAIN map \cup {key} |-> IF k = key THEN value ELSE map[k]]

FlatMapErase(map, key) == [k \in DOMAIN map \ {key} |-> map[k]]

\* a uint64_t: pow64 * 2^64 + offset, so that (uint64_t)(-1) is 2^64 - 1
Uint64(n) == [pow64 |-> IF n < 0 THEN 1 ELSE 0, offset |-> n]

\* the outcome of a member function: the map it leaves, what it returns, the
\* value it hands out, and whether it did what it was called for
Outcome(map, ret, value, success) ==
  [map |-> map, ret |-> ret, value |-> value, success |-> success]

Get(map, key, read) ==
  IF read # 0 THEN Outcome(map, -1, DefaultValue, FALSE)
  ELSE IF ~FlatMapSeek(map, key).ptr THEN Outcome(map, -1, DefaultValue, FALSE)
  ELSE Outcome(map, 0, FlatMapSeek(map, key).value, TRUE)

GetValue(map, key, read) ==
  IF read # 0 THEN Outcome(map, DefaultValue, DefaultValue, FALSE)
  ELSE IF ~FlatMapSeek(map, key).ptr THEN Outcome(map, DefaultValue, DefaultValue, FALSE)
  ELSE Outcome(map, FlatMapSeek(map, key).value, FlatMapSeek(map, key).value, TRUE)

Count(map, key, read) ==
  IF read # 0 THEN Outcome(map, Uint64(0), DefaultValue, FALSE)
  ELSE IF ~FlatMapSeek(map, key).ptr THEN Outcome(map, Uint64(0), DefaultValue, TRUE)
  ELSE Outcome(map, Uint64(1), DefaultValue, TRUE)

Size(map, read) ==
  IF read # 0 THEN Outcome(map, Uint64(0), DefaultValue, FALSE)
  ELSE Outcome(map, Uint64(Cardinality(DOMAIN map)), DefaultValue, TRUE)

\* the sum of ByteSizeLong over the entries
RECURSIVE SumByteSize(_, _)
SumByteSize(map, keys) ==
  IF keys = {} THEN 0
  ELSE LET k == CHOOSE x \in keys : TRUE
       IN ByteSizeLong(map[k]) + SumByteSize(map, keys \ {k})

MemorySize(map, read) ==
  IF read # 0 THEN Outcome(map, Uint64(-1), DefaultValue, FALSE)
  ELSE Outcome(map, Uint64(SumByteSize(map, DOMAIN map)), DefaultValue, TRUE)

\* the inner functions: the map they leave and the size_t they return
Inner(map, ret) == [map |-> map, ret |-> ret]

InnerCopyFlatMap(map, input_map) == Inner(input_map, 1)
InnerErase(map, key) == Inner(FlatMapErase(map, key), 1)
InnerClear(map) == Inner(EmptyFlatMap, 1)
InnerPut(map, key, value) == Inner(FlatMapInsert(map, key, value), 1)

RECURSIVE InsertAll(_, _, _)
InsertAll(map, key_list, value_list) ==
  IF key_list = <<>> THEN map
  ELSE InsertAll(FlatMapInsert(map, Head(key_list), Head(value_list)),
                 Tail(key_list), Tail(value_list))

InnerMultiPut(map, key_list, value_list) ==
  IF Len(key_list) # Len(value_list) THEN Inner(map, 0)
  ELSE IF key_list = <<>> THEN Inner(map, 0)
  ELSE Inner(InsertAll(map, key_list, value_list), Len(key_list))

InnerPutIfExists(map, key, value) ==
  IF ~FlatMapSeek(map, key).ptr THEN Inner(map, 0)
  ELSE Inner(FlatMapInsert(map, key, value), 1)

InnerPutIfAbsent(map, key, value) ==
  IF FlatMapSeek(map, key).ptr THEN Inner(map, 0)
  ELSE Inner(FlatMapInsert(map, key, value), 1)

InnerPutIfEqual(map, key, value) ==
  IF ~FlatMapSeek(map, key).ptr THEN Inner(map, 0)
  ELSE IF FlatMapSeek(map, key).value # value THEN Inner(map, 0)
  ELSE Inner(FlatMapInsert(map, key, value), 1)

InnerPutIfNotEqual(map, key, value) ==
  IF ~FlatMapSeek(map, key).ptr THEN Inner(map, 0)
  ELSE IF FlatMapSeek(map, key).value = value THEN Inner(map, 0)
  ELSE Inner(FlatMapInsert(map, key, value), 1)

\* a member function that modifies: 1 when Modify returns more than 0, else -1
Modified(inner) ==
  IF inner.ret > 0 THEN Outcome(inner.map, 1, DefaultValue, TRUE)
  ELSE Outcome(inner.map, -1, DefaultValue, FALSE)

NoCall == [op |-> "none", ret |-> 0, value |-> DefaultValue, success |-> FALSE, read |-> 0]

InitSafeMap ==
  /\ sm_map = EmptyFlatMap
  /\ sm_ret = NoCall

\* the caller has the outcome of a member function
SafeMapReturns(op, o, read) ==
  /\ sm_map' = o.map
  /\ sm_ret' = [op |-> op, ret |-> o.ret, value |-> o.value, success |-> o.success,
                read |-> read]
  /\ UNCHANGED notSafeMap

\* what DoublyBufferedData::Read returns: 0, or -1 when it fails
ReadResults == {0, -1}

SafeMapGet ==
  \E key \in SafeMapKeys, read \in ReadResults : SafeMapReturns("Get", Get(sm_map, key, read), read)

SafeMapGetValue ==
  \E key \in SafeMapKeys, read \in ReadResults :
    SafeMapReturns("GetValue", GetValue(sm_map, key, read), read)

SafeMapCount ==
  \E key \in SafeMapKeys, read \in ReadResults :
    SafeMapReturns("Count", Count(sm_map, key, read), read)

SafeMapSize ==
  \E read \in ReadResults : SafeMapReturns("Size", Size(sm_map, read), read)

SafeMapMemorySize ==
  \E read \in ReadResults : SafeMapReturns("MemorySize", MemorySize(sm_map, read), read)

SafeMapCopyFlatMap ==
  \E input_map \in FlatMaps :
    SafeMapReturns("CopyFlatMap", Modified(InnerCopyFlatMap(sm_map, input_map)), 0)

SafeMapPut ==
  \E key \in SafeMapKeys, value \in SafeMapValues :
    SafeMapReturns("Put", Modified(InnerPut(sm_map, key, value)), 0)

SafeMapMultiPut ==
  \E key_list \in {<<>>, <<1>>, <<1, 2>>}, value_list \in {<<>>, <<<<1>>>>, <<<<1>>, <<1, 2>>>>} :
    SafeMapReturns("MultiPut", Modified(InnerMultiPut(sm_map, key_list, value_list)), 0)

SafeMapPutIfExists ==
  \E key \in SafeMapKeys, value \in SafeMapValues :
    SafeMapReturns("PutIfExists", Modified(InnerPutIfExists(sm_map, key, value)), 0)

SafeMapPutIfAbsent ==
  \E key \in SafeMapKeys, value \in SafeMapValues :
    SafeMapReturns("PutIfAbsent", Modified(InnerPutIfAbsent(sm_map, key, value)), 0)

SafeMapPutIfEqual ==
  \E key \in SafeMapKeys, value \in SafeMapValues :
    SafeMapReturns("PutIfEqual", Modified(InnerPutIfEqual(sm_map, key, value)), 0)

SafeMapPutIfNotEqual ==
  \E key \in SafeMapKeys, value \in SafeMapValues :
    SafeMapReturns("PutIfNotEqual", Modified(InnerPutIfNotEqual(sm_map, key, value)), 0)

SafeMapErase ==
  \E key \in SafeMapKeys : SafeMapReturns("Erase", Modified(InnerErase(sm_map, key)), 0)

SafeMapClear ==
  SafeMapReturns("Clear", Modified(InnerClear(sm_map)), 0)

\* the state machine applies a PUT delta at the next main revision
MetaKvPutApply ==
  /\ m_log = <<>> /\ m_revision <= MaxRevision
  /\ \E key \in MetaKeys, value \in MetaValues, lease_id \in {0} \cup LeaseIds,
        ignore_lease \in BOOLEAN, ignore_value \in BOOLEAN :
       LET ms == KvPutApply(MetaState, key, Revision(m_revision, 0), ignore_lease, lease_id,
                            ignore_value, value)
       IN /\ m_kv_index' = ms.kv_index_map
          /\ m_kv_rev' = ms.kv_rev_map
          /\ m_watch' = ms.watch
          /\ m_events' = ms.events
  /\ m_revision' = m_revision + 1
  /\ UNCHANGED <<m_lease, m_log, m_resp, m_puts, notMeta>>

\* the state machine applies a DELETE delta at the next main revision
MetaKvDeleteApply ==
  /\ m_log = <<>> /\ m_revision <= MaxRevision
  /\ \E key \in MetaKeys :
       LET ms == KvDeleteApply(MetaState, key, Revision(m_revision, 0))
       IN /\ m_kv_index' = ms.kv_index_map
          /\ m_kv_rev' = ms.kv_rev_map
          /\ m_watch' = ms.watch
          /\ m_events' = ms.events
  /\ m_revision' = m_revision + 1
  /\ UNCHANGED <<m_lease, m_log, m_resp, m_puts, notMeta>>

(***************************************************************************)
(* TxnPrewrite of the document service: two workers of the write worker    *)
(* set run DoTxnPrewriteDocument at the same time on one region.           *)
(***************************************************************************)
\* the workers; a latch slot that no worker owns holds 0
PrewriteWorkers == {1, 2}

MutationOps == {"Put", "Delete"}
\* a mutation: its key, its op, and the id of the DocumentWithId it carries (0
\* when the mutation carries none)
Mutations == [key : UserKeys, op : MutationOps, vector_id : 0..MaxKey]
PrewriteRequests == UNION {[1..n -> Mutations] : n \in 1..MaxMutations}

\* DocumentCodec::DecodeDocumentId: the id that the key encodes
DecodeDocumentId(key) == key[1]

\* the loop of ValidateIndexTxnPrewriteRequest over the mutations: a Put has to
\* carry the document of the id in its key
MutationsValid(mutations) ==
  \A i \in 1..Len(mutations) :
    mutations[i].op = "Put" => mutations[i].vector_id = DecodeDocumentId(mutations[i].key)

\* keys_for_lock of DoTxnPrewriteDocument
KeysForLock(mutations) ==
  {StdToString(mutations[i].vector_id) : i \in 1..Len(mutations)}

LatchSlots == {StdToString(id) : id \in 0..MaxKey}

\* Region::LatchesAcquire: the lock is got when no other command owns a slot of it
LatchesAcquire(latches, lock, cid) ==
  IF \A slot \in lock : latches[slot] \in {0, cid}
  THEN [got |-> TRUE, latches |-> [slot \in LatchSlots |-> IF slot \in lock THEN cid ELSE latches[slot]]]
  ELSE [got |-> FALSE, latches |-> latches]

\* Region::LatchesRelease
LatchesRelease(latches, lock, cid) ==
  [slot \in LatchSlots |-> IF slot \in lock /\ latches[slot] = cid THEN 0 ELSE latches[slot]]

InitLatch ==
  /\ l_pc = [w \in PrewriteWorkers |-> "idle"]
  /\ l_req = [w \in PrewriteWorkers |-> <<>>]
  /\ l_latches = [slot \in LatchSlots |-> 0]

\* a worker takes the task of a TxnPrewrite and validates the request
DoTxnPrewriteDocument ==
  \E w \in PrewriteWorkers, mutations \in PrewriteRequests :
    /\ l_pc[w] = "idle"
    /\ l_req' = [l_req EXCEPT ![w] = mutations]
    /\ l_pc' = [l_pc EXCEPT ![w] = IF MutationsValid(mutations) THEN "validated" ELSE "finished"]
    /\ UNCHANGED <<l_latches, notLatch>>

\* the loop over LatchesAcquire ends when the latch is got
PrewriteLatchesAcquire ==
  \E w \in PrewriteWorkers :
    /\ l_pc[w] = "validated"
    /\ LET r == LatchesAcquire(l_latches, KeysForLock(l_req[w]), w) IN
       /\ r.got
       /\ l_latches' = r.latches
    /\ l_pc' = [l_pc EXCEPT ![w] = "latched"]
    /\ UNCHANGED <<l_req, notLatch>>

\* storage->TxnPrewrite, synchronous
StorageTxnPrewrite ==
  \E w \in PrewriteWorkers :
    /\ l_pc[w] = "latched"
    /\ l_pc' = [l_pc EXCEPT ![w] = "processed"]
    /\ UNCHANGED <<l_req, l_latches, notLatch>>

\* the function returns: DEFER(region->LatchesRelease(&lock, cid))
PrewriteLatchesRelease ==
  \E w \in PrewriteWorkers :
    /\ l_pc[w] = "processed"
    /\ l_latches' = LatchesRelease(l_latches, KeysForLock(l_req[w]), w)
    /\ l_pc' = [l_pc EXCEPT ![w] = "finished"]
    /\ UNCHANGED <<l_req, notLatch>>

\* the worker turns to its next task
PrewriteDone ==
  \E w \in PrewriteWorkers :
    /\ l_pc[w] = "finished"
    /\ l_pc' = [l_pc EXCEPT ![w] = "idle"]
    /\ l_req' = [l_req EXCEPT ![w] = <<>>]
    /\ UNCHANGED <<l_latches, notLatch>>

(***************************************************************************)
(* Properties of the coordinator.                                          *)
(***************************************************************************)
\* C7: when a handler fails to put its task into the worker set, the
\* response carries the REQUEST_FULL error.
C7_FullQueueRequestFull ==
  c_pc = "finished" /\ c_task = "refused" => c_resp.errcode = "EREQUEST_FULL"

DoneReport ==
  /\ c_pc = "finished"
  /\ c_req.method = "UpdateRegionCmdStatus"
  /\ c_req.status = "STATUS_DONE"
  /\ c_req.job_id \in JobIds
  /\ c_req.region_cmd_id \in CmdIds

\* C8: a report of a region cmd as DONE that reaches the leader is accepted:
\* it is handed to the worker set, and when it was executed without error
\* the region cmd is DONE and the job is past a task whose cmds are all DONE.
C8_DoneReportAccepted ==
  DoneReport /\ c_resp.errcode # "ERAFT_NOTLEADER" =>
    /\ c_task # "none"
    /\ c_task = "executed" /\ c_resp.errcode = "OK" =>
         /\ c_job.cmd_status[c_req.region_cmd_id] = "STATUS_DONE"
         /\ \A i \in 1..Len(JobTasks) :
              (\A c \in JobTasks[i] : c_job.cmd_status[c] = "STATUS_DONE")
                => c_job.current_task > i \/ c_job.status = "DONE"

SuccessfulRpc(method) ==
  /\ c_pc = "finished"
  /\ c_req.method = method
  /\ c_task = "executed"
  /\ c_resp.errcode = "OK"

\* C9: a successful UpdateGCSafePoint response reports the global GC safe
\* point as the update left it, and the gc_stop flag.
C9_ReportsGcSafePoint ==
  SuccessfulRpc("UpdateGCSafePoint") =>
    /\ c_resp.body.new_safe_point = c_gc.safe_point
    /\ c_resp.body.gc_stop = c_gc.gc_stop

ReturnsStoreMapAndState ==
  /\ c_resp.body.has_storemap
  /\ c_resp.body.storemap = c_storemap.stores
  /\ c_resp.body.storemap_epoch = c_storemap.epoch
  /\ c_resp.body.cluster_state = c_cluster

\* C10 as stated: a StoreHeartbeat accepted by the leader returns the current
\* store map, the region cmds addressed to the reporting store and the
\* cluster state.
C10_HeartbeatReturnsRegionCmds ==
  SuccessfulRpc("StoreHeartbeat") =>
    /\ ReturnsStoreMapAndState
    /\ c_resp.body.region_cmds = c_store_ops[c_req.store.id]

\* C10 amended: a StoreHeartbeat that the leader executed without error
\* returns the current store map with its epoch and the cluster state; the
\* response carries no region cmds.
C10_HeartbeatReturnsStoreMap ==
  SuccessfulRpc("StoreHeartbeat") =>
    /\ ReturnsStoreMapAndState
    /\ c_resp.body.region_cmds = {}

C10_Witness ==
  /\ SuccessfulRpc("StoreHeartbeat")
  /\ c_store_ops[c_req.store.id] # {}
  /\ c_cluster.force_read_only
  /\ c_cluster.read_only
  /\ c_storemap.stores[c_req.store.id] = "l2"

\* the keys of a column family that lie in a range
KeysInRange(store, cf_name, range) ==
  {rk \in Present(store) :
     /\ StrLeq(EncodeKey(cf_name, range.start_key), rk)
     /\ StrLess(rk, EncodeKey(cf_name, range.end_key))}

\* C15: GetApproximateSizes returns one count per requested range, in the order of
\* the ranges: counts[i] is the number of keys of ranges[i], also when it is 0
\* (stated for calls whose ranges are all valid and whose engine calls succeed)
C15_OneCountPerRange ==
  (/\ r_resp.op = "GetApproximateSizes" /\ ~r_resp.failed
   /\ \A i \in 1..Len(r_resp.ranges) : CheckRange(r_resp.ranges[i]) = "OK") =>
    /\ Len(r_resp.counts) = Len(r_resp.ranges)
    /\ \A i \in 1..Len(r_resp.ranges) :
         r_resp.counts[i] = Cardinality(KeysInRange(db, r_resp.cf, r_resp.ranges[i]))

\* C14: an iterator that reports Valid(), after any sequence of Seek, SeekForPrev,
\* SeekToFirst, SeekToLast, Next and Prev, stands on a key of its own column
\* family with lower_bound <= key < upper_bound (an empty bound does not bind)
C14_ValidWithinBounds ==
  (i_open /\ Valid(i_it)) =>
    /\ Len(i_it.bdb_key_) >= 1
    /\ Head(i_it.bdb_key_) = GetCfId(i_opts.cf)
    /\ i_opts.lower_bound # EmptyKey => StrLeq(i_opts.lower_bound, IterKey(i_it))
    /\ i_opts.upper_bound # EmptyKey => StrLess(IterKey(i_it), i_opts.upper_bound)

\* a bounded iterator reports Valid() while a key of its column family lies
\* outside its bounds and a key of the other column family is stored
C14_Witness ==
  /\ i_open /\ Valid(i_it)
  /\ i_opts.lower_bound # EmptyKey /\ i_opts.upper_bound # EmptyKey
  /\ \E rk \in Present(IterContent) :
       /\ Head(rk) = GetCfId(i_opts.cf)
       /\ \/ StrLeq(i_opts.upper_bound, Tail(rk))
          \/ StrLess(Tail(rk), i_opts.lower_bound)
  /\ \E rk \in Present(IterContent) : Head(rk) # GetCfId(i_opts.cf)

\* what the B-tree holds at a raw key
StoredAt(content, rk) == IF rk \in DOMAIN content THEN content[rk] ELSE NoValue

\* the user keys of a column family that the content holds in [start_key, end_key)
HeldInRange(content, cf_name, start_key, end_key) ==
  {k \in UserKeys : /\ StoredAt(content, <<GetCfId(cf_name)>> \o k) # NoValue
                    /\ StrLeq(start_key, k) /\ StrLess(k, end_key)}

\* C25: the column families do not meet in the shared B-tree.  A write through
\* one family leaves every raw key of another family as it was; an iterator
\* without an upper bound ends at cf_id + 1 and is valid only on raw keys that
\* begin with its cf_id; a get and a scan answer from cf_id || user_key alone.
C25_ColumnFamiliesIsolated ==
  /\ (e_pc = "done" /\ e_req.op \in {"KvPut", "KvBatchDelete"}) =>
       \A rk \in RawKeys : Head(rk) # GetCfId(e_req.cf) => db[rk] = e_pre[rk]
  /\ (e_pc = "done" /\ e_req.op = "KvPut" /\ e_resp.status = "OK") =>
       StoredAt(db, <<GetCfId(e_req.cf)>> \o e_req.key) = e_req.value
  /\ i_open =>
       /\ i_opts.upper_bound = EmptyKey => i_it.raw_end_key = <<GetCfId(i_opts.cf) + 1>>
       /\ Valid(i_it) => Head(i_it.bdb_key_) = GetCfId(i_opts.cf)
  /\ r_resp.op = "KvGet" =>
       /\ r_resp.status = "OK" => r_resp.value = StoredAt(db, <<GetCfId(r_resp.cf)>> \o r_resp.key)
       /\ r_resp.status = "EKEY_NOT_FOUND" =>
            StoredAt(db, <<GetCfId(r_resp.cf)>> \o r_resp.key) = NoValue
  /\ (r_resp.op = "KvScan" /\ r_resp.status = "OK" /\ r_resp.iter_status = "OK") =>
       {r_resp.kvs[i] : i \in 1..Len(r_resp.kvs)} =
         {[key |-> k, value |-> StoredAt(db, <<GetCfId(r_resp.cf)>> \o k)] :
            k \in HeldInRange(db, r_resp.cf, r_resp.range.start_key, r_resp.range.end_key)}

\* a key is held by "meta" and not by "default", where a get has just missed it
\* and an iterator without bounds has found nothing
C25_Witness ==
  /\ db[<<GetCfId("meta"), 1>>] # NoValue
  /\ db[<<GetCfId("default"), 1>>] = NoValue /\ db[<<GetCfId("default"), 2>>] = NoValue
  /\ r_resp.op = "KvGet" /\ r_resp.cf = "default" /\ r_resp.key = <<1>>
  /\ r_resp.status = "EKEY_NOT_FOUND"
  /\ i_open /\ i_opts.cf = "default" /\ i_opts.upper_bound = EmptyKey
  /\ i_cur = <<GetCfId("meta"), 1>> /\ ~Valid(i_it)

\* C26: a GetSnapshot that meets more deadlocks than bdb_max_retries gives up
\* and returns no snapshot
C26_SnapshotRetriesBounded ==
  (r_resp.op = "GetSnapshot" /\ r_resp.deadlocks > bdb_max_retries) => ~r_resp.got

\* C27: when GetSnapshot returns, every transaction and cursor it began is
\* ended or owned by the snapshot it returns, whatever path it took
C27_ReleasedOnEveryPath ==
  r_resp.op = "GetSnapshot" => r_resp.unreleased = [txns |-> 0, cursors |-> 0]

(***************************************************************************)
(* Properties of the MetaStore.                                            *)
(***************************************************************************)
\* C16: a Range whose range_end is the single byte "\0" returns every live key
\* greater than or equal to key
C16_RangeToInfinity ==
  (/\ m_resp.op = "KvRange" /\ m_resp.range_end = <<0>>
   /\ ~m_resp.count_only /\ m_resp.limit = 0) =>
    {m_resp.kv[i].key : i \in 1..Len(m_resp.kv)} =
      {k \in m_resp.live : StrLeq(m_resp.key, k)}

\* C17: a Put whose key is longer than 4096 bytes is rejected with
\* ILLEGAL_PARAMETERS
C17_LongKeyIllegalParameters ==
  (m_resp.op = "KvPut" /\ Len(m_resp.key) > max_kv_key_size) =>
    m_resp.status = "EILLEGAL_PARAMTETERS"

\* the revisions of a key, oldest first
RECURSIVE KeyRevisions(_)
KeyRevisions(generations) ==
  IF generations = <<>> THEN <<>>
  ELSE Head(generations).revisions \o KeyRevisions(Tail(generations))

\* C18: a Put with ignore_value stores, at its revision, the value of the key's
\* previous revision, whatever the other flags are (ignore_lease among them)
C18_IgnoreValueInherits ==
  \A k \in MetaKeys :
    LET revs == KeyRevisions(m_kv_index[k].generations) IN
    \A i \in 2..Len(revs) :
      m_puts[RevisionToString(revs[i])].ignore_value =>
        m_kv_rev[RevisionToString(revs[i])].value =
          m_kv_rev[RevisionToString(revs[i - 1])].value

\* the MetaIncrement of the main revision has left the log
Applied(main_revision) ==
  \A b \in 1..Len(m_log) : \A j \in 1..Len(m_log[b]) :
    m_log[b][j].op_revision.main # main_revision

\* C19: DeleteRange writes a tombstone revision for each deleted key, and each
\* deleted key that had a lease is taken out of that lease's key-set, also when
\* several deleted keys share a lease (stated for need_lease_remove_keys)
C19_DeleteRangeUnbindsLeases ==
  (/\ m_resp.op = "KvDeleteRange" /\ m_resp.status = "OK"
   /\ m_resp.need_lease_remove_keys) =>
    \A i \in 1..Len(m_resp.deleted) :
      /\ Applied(m_resp.main_revision) =>
           LET kv_rev == m_kv_rev[RevisionToString(Revision(m_resp.main_revision, i - 1))]
           IN kv_rev.found /\ kv_rev.is_deleted /\ kv_rev.id = m_resp.deleted[i].key
      /\ m_resp.deleted[i].lease \in DOMAIN m_lease =>
           m_resp.deleted[i].key \notin m_lease[m_resp.deleted[i].lease].keys

\* the step applies a PUT or DELETE of the key
AppliesTo(k) ==
  /\ m_log # <<>> /\ m_log' = Tail(m_log)
  /\ \E j \in 1..Len(Head(m_log)) : Head(m_log)[j].id = k

\* C20: a one-shot watch of a key fires exactly once, on the next applied PUT or
\* DELETE of the key, and is then removed; a PUT or DELETE of a key that is not
\* watched triggers nothing
C20_WatchFiresOnce ==
  [][\A k \in MetaKeys :
       IF AppliesTo(k) /\ k \in m_watch
       THEN m_events'[k].count = m_events[k].count + 1 /\ k \notin m_watch'
       ELSE m_events'[k].count = m_events[k].count]_vars

\* a watch has fired once and is gone, and a later write of the key is applied
C20_Witness ==
  \E k \in MetaKeys :
    /\ m_events[k].count = 1 /\ k \notin m_watch
    /\ m_kv_index[k].mod_revision.main > m_events[k].mod_revision

\* C21: after Compact(rev) the MetaStore holds no revision older than rev, other
\* than the most recent revision of each key
C21_CompactDropsOldRevisions ==
  m_resp.op = "KvCompact" =>
    \A s \in RevisionStrings :
      (m_kv_rev[s].found /\ m_kv_rev[s].mod_revision.main < m_resp.revision) =>
        m_kv_index[m_kv_rev[s].id].mod_revision = m_kv_rev[s].mod_revision

(***************************************************************************)
(* Properties of DingoSafeMap.                                             *)
(***************************************************************************)
\* the member functions that return an int code
CodeReturning ==
  {"Get", "CopyFlatMap", "Put", "MultiPut", "PutIfExists", "PutIfAbsent", "PutIfEqual",
   "PutIfNotEqual", "Erase", "Clear"}

\* C22: a member function other than Size() and MemorySize() returns +1 when it
\* succeeds and -1 when it fails, Get(key, value) among them
C22_ReturnsPlusOneOrMinusOne ==
  sm_ret.op \in CodeReturning =>
    sm_ret.ret = (IF sm_ret.success THEN 1 ELSE -1)

\* C23: Size() and MemorySize() return 0 when the read of the map fails
C23_SizeZeroOnReadFailure ==
  (sm_ret.op \in {"Size", "MemorySize"} /\ sm_ret.read # 0) => sm_ret.ret = Uint64(0)

\* revisions are ordered by main, then by sub
RevisionLeq(a, b) == a.main < b.main \/ (a.main = b.main /\ a.sub <= b.sub)

\* C28: the mod_revision of every key's KvIndex is the greatest revision that
\* appears in a generation of the key
C28_ModRevisionIsGreatest ==
  \A k \in MetaKeys :
    m_kv_index[k].found =>
      LET revs == KeyRevisions(m_kv_index[k].generations) IN
      /\ \E i \in 1..Len(revs) : revs[i] = m_kv_index[k].mod_revision
      /\ \A i \in 1..Len(revs) : RevisionLeq(revs[i], m_kv_index[k].mod_revision)

\* the latest generation of a key
LatestGeneration(kv_index_map, k) ==
  kv_index_map[k].generations[Len(kv_index_map[k].generations)]

\* the step applies a PUT of the key at the next main revision
PutApplied(k) ==
  LET kv_rev == m_kv_rev'[RevisionToString(Revision(m_revision, 0))] IN
  /\ m_revision' = m_revision + 1
  /\ kv_rev.found /\ ~kv_rev.is_deleted /\ kv_rev.id = k

\* C29: a PUT of a live key adds 1 to the version and keeps create_revision; a
\* PUT of a new key, or the first after a delete, sets version 1 and
\* create_revision to the revision of the PUT
C29_VersionPerGeneration ==
  [][\A k \in MetaKeys :
       PutApplied(k) =>
         LET op_revision == Revision(m_revision, 0)
             new == LatestGeneration(m_kv_index', k)
             kv_rev == m_kv_rev'[RevisionToString(op_revision)]
         IN /\ kv_rev.version = new.verison
            /\ kv_rev.create_revision = new.create_revision
            /\ IF LiveKey(m_kv_index, k)
               THEN /\ new.verison = LatestGeneration(m_kv_index, k).verison + 1
                    /\ new.create_revision = LatestGeneration(m_kv_index, k).create_revision
                    /\ Len(m_kv_index'[k].generations) = Len(m_kv_index[k].generations)
               ELSE /\ new.verison = 1
                    /\ new.create_revision = op_revision]_vars

\* a key was put, deleted and put once more: its second generation is at
\* version 1 and was created at the revision of the last PUT
C29_Witness ==
  \E k \in MetaKeys :
    /\ Len(m_kv_index[k].generations) = 2
    /\ Len(m_kv_index[k].generations[1].revisions) = 2
    /\ LiveKey(m_kv_index, k)
    /\ LatestGeneration(m_kv_index, k).verison = 1
    /\ LatestGeneration(m_kv_index, k).create_revision = m_kv_index[k].mod_revision
    /\ m_kv_rev[RevisionToString(m_kv_index[k].mod_revision)].version = 1

\* the record of a key as Range gives it
RecordOf(kv_index_map, kv_rev_map, k) ==
  LET kv_rev == GetRawKvRev(kv_rev_map, kv_index_map[k].mod_revision)
  IN [create_revision |-> kv_rev.create_revision.main,
      mod_revision |-> kv_rev.mod_revision.main, version |-> kv_rev.version,
      lease |-> kv_rev.lease, key |-> k, value |-> kv_rev.value]

\* C30: the prev_kv that the PUT of a live key hands to the watchers of the key
\* is the record the key had before the PUT
C30_PrevKvIsPreviousRecord ==
  [][\A k \in MetaKeys :
       (PutApplied(k) /\ LiveKey(m_kv_index, k) /\ k \in m_watch) =>
         m_events'[k].prev_kv = RecordOf(m_kv_index, m_kv_rev, k)]_vars

\* the step applies a DELETE of the key at the next main revision
DeleteApplied(k) ==
  LET kv_rev == m_kv_rev'[RevisionToString(Revision(m_revision, 0))] IN
  /\ m_revision' = m_revision + 1
  /\ kv_rev.found /\ kv_rev.is_deleted /\ kv_rev.id = k

\* the step applies a delta that writes no KvRev: a DELETE of a key without KvIndex
DeleteOfNoIndexApplied ==
  /\ m_revision' = m_revision + 1
  /\ ~m_kv_rev'[RevisionToString(Revision(m_revision, 0))].found

\* the keys that a Range over everything returns
RangeKeys(kv_index_map, kv_rev_map, key, range_end) ==
  LET kv == KvRange(kv_index_map, kv_rev_map, key, range_end, 0, FALSE, FALSE).kv
  IN {kv[i].key : i \in 1..Len(kv)}

\* the key's latest generation is an empty one without create_revision
Tombstoned(kv_index_map, k) ==
  /\ kv_index_map[k].found
  /\ Len(kv_index_map[k].generations) > 0
  /\ LatestGeneration(kv_index_map, k) = NullGeneration

\* C31: the DELETE of a live key appends the revision to the latest generation,
\* starts an empty generation after it and writes a KvRev with is_deleted; a
\* key in that state is in the answer of no Range, and a key put after it is
\* again; the DELETE of a key without KvIndex changes nothing
C31_DeleteTombstonesLiveKey ==
  /\ [][\A k \in MetaKeys :
          (DeleteApplied(k) /\ LiveKey(m_kv_index, k)) =>
            LET op_revision == Revision(m_revision, 0)
                n == Len(m_kv_index[k].generations)
                old == m_kv_index[k].generations
                new == m_kv_index'[k].generations
            IN /\ Len(new) = n + 1
               /\ \A i \in 1..(n - 1) : new[i] = old[i]
               /\ new[n].revisions = Append(old[n].revisions, op_revision)
               /\ new[n].create_revision = old[n].create_revision
               /\ Tombstoned(m_kv_index', k)
               /\ m_kv_rev'[RevisionToString(op_revision)].is_deleted
               /\ \A key \in MetaKeys, range_end \in RangeEndsAsked :
                    k \notin RangeKeys(m_kv_index', m_kv_rev', key, range_end)]_vars
  /\ [][DeleteOfNoIndexApplied =>
          UNCHANGED <<m_kv_index, m_kv_rev, m_lease, m_watch, m_events>>]_vars
  /\ [](\A k \in MetaKeys :
          /\ Tombstoned(m_kv_index, k) =>
               \A key \in MetaKeys, range_end \in RangeEndsAsked :
                 k \notin RangeKeys(m_kv_index, m_kv_rev, key, range_end)
          /\ LiveKey(m_kv_index, k) => k \in RangeKeys(m_kv_index, m_kv_rev, k, <<>>))

\* a key was put and deleted, another key's DELETE found no KvIndex
C31_Witness ==
  \E k \in MetaKeys, other \in MetaKeys :
    /\ Tombstoned(m_kv_index, k)
    /\ Len(m_kv_index[k].generations) = 2
    /\ Len(m_kv_index[k].generations[1].revisions) = 2
    /\ m_kv_rev[RevisionToString(m_kv_index[k].mod_revision)].is_deleted
    /\ m_kv_index[k].mod_revision = Revision(2, 0)
    /\ ~m_kv_index[other].found
    /\ m_revision = 4

\* C32: the DELETE of a key whose latest generation has no create_revision
\* leaves the KvIndex, the KvRev store and the watches as they were
C32_DeleteOfDeletedIsNoOp ==
  [][\A k \in MetaKeys :
       (DeleteApplied(k) /\ Tombstoned(m_kv_index, k)) =>
         UNCHANGED <<m_kv_index, m_kv_rev, m_watch, m_events>>]_vars

\* the RPCs whose DoXxx function looks the region up and validates the request
DocumentRpcs == {"DocumentBatchQuery", "DocumentAdd", "DocumentDelete"}

\* C33: a request is checked for the region's existence, then the epoch, the
\* range and state of the region, the leader, and then its payload; the first
\* check that fails gives the error, and the error about a region that the
\* store has carries the region info
C33_ValidationOrder ==
  (s_pc = "finished" /\ s_req.method \in DocumentRpcs /\ s_resp.errcode # "EREQUEST_FULL") =>
    LET d == s_req.defects IN
    /\ "no_region" \in d => s_resp.errcode = "EREGION_NOT_FOUND"
    /\ ("epoch" \in d /\ "no_region" \notin d) => s_resp.errcode = "EREGION_VERSION"
    /\ ("region" \in d /\ d \cap {"no_region", "epoch"} = {}) =>
         s_resp.errcode = "EKEY_OUT_OF_RANGE"
    /\ ("not_leader" \in d /\ d \cap {"no_region", "epoch", "region"} = {}) =>
         s_resp.errcode = "ERAFT_NOTLEADER"
    /\ s_resp.errcode \notin {"OK", "EINTERNAL", "EREGION_NOT_FOUND"} => s_resp.region_info

\* the keys that the mutations of a request are on
MutationKeys(mutations) == {mutations[i].key : i \in 1..Len(mutations)}

\* the worker has got its latch and not released it
HoldsLatch(w) == l_pc[w] \in {"latched", "processed"}

\* C34: two prewrites with a mutation on the same key never hold their latches
\* at the same time, and a latch is held while the prewrite is processed
C34_PrewriteSerializedPerKey ==
  /\ [](\A w1 \in PrewriteWorkers, w2 \in PrewriteWorkers :
          (w1 # w2 /\ HoldsLatch(w1) /\ HoldsLatch(w2)) =>
            MutationKeys(l_req[w1]) \cap MutationKeys(l_req[w2]) = {})
  /\ [][\A w \in PrewriteWorkers :
          (l_pc[w] = "latched" /\ l_pc'[w] = "processed") =>
            \A slot \in KeysForLock(l_req[w]) : l_latches[slot] = w /\ l_latches'[slot] = w]_vars

\* the step is a KvPut that the checks of key and value reject
PutRejectedByValidation ==
  /\ m_resp = NoMetaResponse /\ m_resp'.op = "KvPut"
  /\ m_resp'.status # "OK"
  /\ \/ m_resp'.key = <<>>
     \/ Len(m_resp'.key) > max_kv_key_size
     \/ ~m_resp'.ignore_value /\ m_resp'.value = EmptyValue

\* C35: a KvPut that is rejected for its key or value leaves the MetaStore as
\* it was: the key is in no lease's key-set that it was not in before
C35_RejectedPutChangesNothing ==
  [][PutRejectedByValidation =>
       UNCHANGED <<m_kv_index, m_kv_rev, m_lease, m_watch, m_events, m_log>>]_vars

\* the keys of the iterator's column family within its bounds
KeysWithinBounds(content, it) ==
  {rk \in Present(content) : StrLeq(it.raw_start_key, rk) /\ StrLess(rk, it.raw_end_key)}

\* the iterator stands on the key and Valid() is true
ValidAt(it, rk) == Valid(it) /\ it.bdb_key_ = rk

\* C36: SeekToFirst leaves the iterator on the smallest key of the column
\* family within [lower, upper), SeekToLast on the greatest, and Valid() is true
\* after either exactly when there is such a key
C36_SeekToEndsWithinBounds ==
  [][/\ Positioned(SeekToFirst(i_it, i_cur, IterContent, FALSE)) =>
          LET within == KeysWithinBounds(IterContent, i_it) IN
          IF within = {} THEN ~Valid(i_it') ELSE ValidAt(i_it', MinKey(within))
     /\ Positioned(SeekToLast(i_it, i_cur, IterContent, FALSE)) =>
          LET within == KeysWithinBounds(IterContent, i_it) IN
          IF within = {} THEN ~Valid(i_it') ELSE ValidAt(i_it', MaxRawKey(within))]_vars

\* the keys of the iterator's column family up to the target
KeysUpTo(content, it, target) ==
  {rk \in Present(content) : Head(rk) = it.cf_id /\ StrLeq(rk, <<it.cf_id>> \o target)}

\* C37: SeekForPrev leaves the iterator on the greatest key of the column
\* family that is not greater than the target, invalid when there is none, and
\* never on a key greater than the target
C37_SeekForPrevNotAfterTarget ==
  [][\A target \in SeekTargets :
       Positioned(SeekForPrev(i_it, i_cur, IterContent, target, FALSE)) =>
         LET upto == KeysUpTo(IterContent, i_it, target) IN
         /\ upto = {} => ~Valid(i_it')
         /\ Valid(i_it') => StrLeq(i_it'.bdb_key_, <<i_it.cf_id>> \o target)
         /\ (upto # {} /\ MaxRawKey(upto) \in KeysWithinBounds(IterContent, i_it)) =>
              ValidAt(i_it', MaxRawKey(upto))]_vars

\* C38: a CreateRegionId response that carries an error carries no region ids
C38_RegionIdsOnlyWhenWritten ==
  (c_pc = "finished" /\ c_req.method = "CreateRegionId" /\ c_resp.errcode # "OK") =>
    c_resp.body = NoBody

\* the live keys that a Range of [key, range_end) is about
LiveInRange(kv_index_map, key, range_end) ==
  {k \in MetaKeys : kv_index_map[k].found /\ RangeFilter(key, range_end, k, kv_index_map[k])}

\* C39: a Range with count_only reports the number of the live keys in the
\* range as its total, as the same Range without count_only does
C39_CountOnlyReportsTotal ==
  [][(m_resp = NoMetaResponse /\ m_resp'.op = "KvRange" /\ m_resp'.count_only) =>
       /\ m_resp'.total_count_in_range =
            Cardinality(LiveInRange(m_kv_index, m_resp'.key, m_resp'.range_end))
       /\ m_resp'.total_count_in_range =
            KvRange(m_kv_index, m_kv_rev, m_resp'.key, m_resp'.range_end, m_resp'.limit,
                    m_resp'.keys_only, FALSE).total_count_in_range]_vars

Init ==
  /\ InitEngine /\ InitService /\ InitCoord /\ InitHistory /\ InitIter /\ InitMeta
  /\ InitSafeMap /\ InitLatch /\ InitTxn

NextEngine ==
  \/ InvokeWriter
  \/ WriterKvPut
  \/ WriterKvBatchDelete
  \/ WriterKvBatchPutAndDelete
  \/ ReturnWriter

SpecEngine == Init /\ [][NextEngine]_vars

NextRange ==
  \/ InvokeRangeDelete
  \/ WriterKvPut
  \/ WriterKvDeleteRange
  \/ WriterKvBatchDeleteRange
  \/ KvBatchDeleteRangeBulk
  \/ ReturnWriter

SpecRange == Init /\ [][NextRange]_vars

NextSnap ==
  \/ InvokeSnapWriter
  \/ WriterKvPut
  \/ WriterKvBatchDelete
  \/ ReturnWriter
  \/ EngineGetSnapshot
  \/ ReleaseSnapshot
  \/ ReaderKvGet
  \/ ReaderKvScan
  \/ ReturnReader

SpecSnap == Init /\ [][NextSnap]_vars

NextService ==
  \/ DocumentBatchQuery
  \/ DoDocumentBatchQuery
  \/ DocumentAdd
  \/ DoDocumentAdd
  \/ DocumentDelete
  \/ DoDocumentDelete
  \/ TxnCheckTxnStatus
  \/ TxnResolveLock
  \/ DoTxn
  \/ NextRpc
  \/ SetClusterReadOnly
  \/ WorkerSetLoad

SpecService == Init /\ [][NextService]_vars

NextJob ==
  \/ UpdateRegionCmdStatus
  \/ DoUpdateRegionCmdStatus
  \/ GetRangeRegionMap
  \/ DoGetRangeRegionMap
  \/ NextCoordRpc
  \/ LeaderChange
  \/ CoordWorkerSetLoad

SpecJob == Init /\ [][NextJob]_vars

NextGc ==
  \/ UpdateGCSafePoint
  \/ DoUpdateGCSafePoint
  \/ NextCoordRpc
  \/ LeaderChange
  \/ CoordWorkerSetLoad

SpecGc == Init /\ [][NextGc]_vars

NextHeartbeat ==
  \/ StoreHeartbeat
  \/ DoStoreHeartbeat
  \/ CreateStore
  \/ AddStoreOperation
  \/ ConfigCoordinator
  \/ NextCoordRpc
  \/ LeaderChange
  \/ CoordWorkerSetLoad

SpecHeartbeat == Init /\ [][NextHeartbeat]_vars

NextKv ==
  \/ InvokeKv
  \/ KvWriterKvPut
  \/ KvWriterKvDelete
  \/ ReturnWriter
  \/ KvReaderKvGet
  \/ ReturnReader

SpecKv == Init /\ [][NextKv]_vars

NextIter ==
  \/ InvokeIterWriter
  \/ WriterKvPut
  \/ WriterKvBatchDelete
  \/ ReturnWriter
  \/ NewIterator
  \/ DoSeek
  \/ DoSeekForPrev
  \/ DoSeekToFirst
  \/ DoSeekToLast
  \/ DoNext
  \/ DoPrev
  \/ CloseIterator

SpecIter == Init /\ [][NextIter]_vars

NextSize ==
  \/ InvokeSnapWriter
  \/ WriterKvPut
  \/ WriterKvBatchDelete
  \/ ReturnWriter
  \/ EngineGetApproximateSizes
  \/ ReturnReader

SpecSize == Init /\ [][NextSize]_vars

NextMeta ==
  \/ MetaKvRange
  \/ MetaKvPut
  \/ MetaKvDeleteRange
  \/ MetaApply
  \/ MetaReturn

SpecMeta == Init /\ [][NextMeta]_vars

NextLease ==
  \/ MetaLeaseGrant
  \/ MetaKvPut
  \/ MetaKvDeleteRange
  \/ MetaApply
  \/ MetaReturn

SpecLease == Init /\ [][NextLease]_vars

NextWatch ==
  \/ MetaOneTimeWatch
  \/ MetaKvPut
  \/ MetaKvDeleteRange
  \/ MetaApply
  \/ MetaReturn

SpecWatch == Init /\ [][NextWatch]_vars

NextCompact ==
  \/ MetaKvPut
  \/ MetaKvDeleteRange
  \/ MetaApply
  \/ MetaReturn
  \/ MetaKvCompact

SpecCompact == Init /\ [][NextCompact]_vars

NextSafeMap ==
  \/ SafeMapGet
  \/ SafeMapGetValue
  \/ SafeMapCount
  \/ SafeMapSize
  \/ SafeMapMemorySize
  \/ SafeMapCopyFlatMap
  \/ SafeMapPut
  \/ SafeMapMultiPut
  \/ SafeMapPutIfExists
  \/ SafeMapPutIfAbsent
  \/ SafeMapPutIfEqual
  \/ SafeMapPutIfNotEqual
  \/ SafeMapErase
  \/ SafeMapClear

SpecSafeMap == Init /\ [][NextSafeMap]_vars

NextCf ==
  \/ InvokeIterWriter
  \/ WriterKvPut
  \/ WriterKvBatchDelete
  \/ ReturnWriter
  \/ NewIterator
  \/ DoSeek
  \/ DoSeekToFirst
  \/ DoSeekToLast
  \/ DoNext
  \/ DoPrev
  \/ CloseIterator
  \/ ReaderKvGet
  \/ ReaderKvScan
  \/ ReturnReader

SpecCf == Init /\ [][NextCf]_vars

NextAcquire ==
  \/ InvokeSnapWriter
  \/ WriterKvPut
  \/ WriterKvBatchDelete
  \/ ReturnWriter
  \/ EngineGetSnapshotUnderFaults
  \/ ReleaseSnapshot
  \/ ReturnReader

SpecAcquire == Init /\ [][NextAcquire]_vars

NextApply ==
  \/ MetaOneTimeWatch
  \/ MetaKvPutApply
  \/ MetaKvDeleteApply

SpecApply == Init /\ [][NextApply]_vars

NextLatch ==
  \/ DoTxnPrewriteDocument
  \/ PrewriteLatchesAcquire
  \/ StorageTxnPrewrite
  \/ PrewriteLatchesRelease
  \/ PrewriteDone

SpecLatch == Init /\ [][NextLatch]_vars

NextRegionId ==
  \/ CreateRegionId
  \/ DoCreateRegionId
  \/ NextCoordRpc
  \/ LeaderChange
  \/ CoordWorkerSetLoad

SpecRegionId == Init /\ [][NextRegionId]_vars

NextTxn ==
  \/ KvPutTransaction
  \/ GetSnapshotTransaction
  \/ DestroySnapshot

SpecTxn == Init /\ [][NextTxn]_vars

====
